---- MODULE Spec2Model ----
(***************************************************************************)
(* Trading core of the Polymarket market-making bot: the supervisor        *)
(* (live_trade.py), the order manager with its Triple Gate pricing and     *)
(* diff-based reconciler (execution/order_manager.py), the order tracker   *)
(* (execution/order_tracker.py), the executor's venue calls and ledger     *)
(* updates (execution/real_executor.py), the window roll                   *)
(* (ingestion/orchestrator.py) and the market-data socket                  *)
(* (ingestion/polymarket_ws.py).                                           *)
(*                                                                         *)
(* Units.  Prices are integer ticks (1.00 = 1000).  Sizes are kept in      *)
(* hundredths of a share (SizeScale), the precision the code rounds        *)
(* target sizes to; costs are ticks * hundredths.  Gate prices, which the  *)
(* code computes as floats, are exact fractions <<num, den>>, den > 0.     *)
(***************************************************************************)
EXTENDS Integers, FiniteSets, Sequences, TLC

\* ------------------------------------------------------------------------
\* Program constants (config.py)
\* ------------------------------------------------------------------------
MAX_POSITION == 75
BASE_SIZE == 10
MIN_ORDER_SIZE == 5
BASE_MARGIN_TICKS == 15
\* GAMMA = 0.001 per share; raw_skew = net * GAMMA * 1000 ticks
GAMMA_TIMES_1000 == 1
MAX_SKEW_TICKS == 100
LADDER_DEPTH == 5
MIN_PRICE == 100
SLIPPAGE_TOL_TICKS == 20
\* HYSTERESIS = 0.50, as a percentage
HYSTERESIS_PCT == 50
\* PROFIT_LOCK_MIN = 10.0 dollars
PROFIT_LOCK_MIN == 10
TICK_SIZE == 10
\* CIRCUIT_BREAKER_USD = 200.0 dollars
CIRCUIT_BREAKER_USD == 200
\* the hard upper clamp of _calc_final_price
MAX_VALID_PRICE == 990
\* one dollar, and the value of an unknown ask, in ticks
ONE_DOLLAR_TICKS == 1000
\* the length of a window in seconds
WINDOW_SECONDS == 900
\* the scheduler's sleep when the fetched market is still the current one
SAME_MARKET_SLEEP == 30
\* the scheduler's sleep after an exception
ERROR_SLEEP == 60
\* PolymarketWebSocket.max_reconnect_delay, in seconds
MAX_RECONNECT_DELAY == 60
\* sizes are rounded down to 1/100 share
SizeScale == 100

\* ------------------------------------------------------------------------
\* Bounds of the model
\* ------------------------------------------------------------------------
\* windows the scheduler rolls through (market ids 1..MaxWindows)
MaxWindows == 3
\* market-data messages the supervisor acts on in a run
MaxBookEvents == 2
\* fills the venue delivers in a run
MaxFills == 2
\* position syncs started in a run
MaxSyncs == 1
\* venue calls that fail (exception / rejection) in a run
MaxVenueFailures == 1
\* tasks pending on the event loop at once
MaxTasks == 2
\* fills, syncs, failed venue calls and lost connections together in a run
MaxIncidents == 2
\* times the market-data connection is lost and re-established
MaxDrops == 1
\* orders ever added to a tracker exercised on its own
MaxTrackerOrders == 3
\* trades the venue reports on the user channel
MaxTrades == 2
\* times the venue or the network ends the market-data connection, in the
\* runs of the socket on its own
MaxCloses == 2
\* attempts to connect or to subscribe that fail, in those runs
MaxConnectFailures == 7
\* trades the venue has matched and the user channel has not yet delivered
MaxPendingTrades == 8

Sides == {"yes", "no"}

Other(side) == IF side = "yes" THEN "no" ELSE "yes"

\* ------------------------------------------------------------------------
\* Exact fractions
\* ------------------------------------------------------------------------
Frac(n, d) == <<n, d>>

\* a/b <= c/d for b, d > 0, by integer parts and remainders (no products,
\* so that the comparison is exact for every size the model reaches)
RECURSIVE RatioLeq(_, _, _, _)
RatioLeq(a, b, c, d) ==
    LET qa == a \div b
        qc == c \div d
        ra == a % b
        rc == c % d
    IN IF qa # qc THEN qa < qc
       ELSE IF ra = 0 THEN TRUE
       ELSE IF rc = 0 THEN FALSE
       ELSE RatioLeq(d, rc, b, ra)

FracLeq(a, b) == RatioLeq(a[1], a[2], b[1], b[2])

FracMin(a, b) == IF FracLeq(a, b) THEN a ELSE b

FracMax(a, b) == IF FracLeq(a, b) THEN b ELSE a

\* int(x) for x >= 0
FracFloor(a) == a[1] \div a[2]

\* ------------------------------------------------------------------------
\* Position ledger (state/position_state.py)
\* ------------------------------------------------------------------------
PositionState == [Qy |-> 0, Qn |-> 0, Cy |-> 0, Cn |-> 0]

Qty(pos, side) == IF side = "yes" THEN pos.Qy ELSE pos.Qn

Cost(pos, side) == IF side = "yes" THEN pos.Cy ELSE pos.Cn

\* ------------------------------------------------------------------------
\* Triple Gate pricing (execution/order_manager.py)
\* ------------------------------------------------------------------------
_get_net_position(side, pos) == Qty(pos, side) - Qty(pos, Other(side))

\* the ask of a side as the gates read it: "best_ask or 1000"
ask_or_1000(book, side) ==
    IF book[side] = 0 THEN ONE_DOLLAR_TICKS ELSE book[side]

\* an accountant that leaves the light side's own cost out of the break-even
_calc_p_acct_no_light_cost(side, pos) ==
    LET net_pos == _get_net_position(side, pos)
        heavy_qty == Qty(pos, Other(side))
        heavy_cost == Cost(pos, Other(side))
        shares_needed == -net_pos
    IN IF net_pos < 0
       THEN IF shares_needed = 0 \/ heavy_qty = 0
            THEN Frac(MAX_VALID_PRICE, 1)
            ELSE Frac(heavy_qty * ONE_DOLLAR_TICKS - heavy_cost, shares_needed)
       ELSE IF heavy_qty <= 0
            THEN Frac(ONE_DOLLAR_TICKS - BASE_MARGIN_TICKS, 1)
            ELSE Frac((ONE_DOLLAR_TICKS - BASE_MARGIN_TICKS) * heavy_qty - heavy_cost,
                      heavy_qty)

_calc_p_acct(side, pos) ==
    LET net_pos == _get_net_position(side, pos)
        heavy_qty == Qty(pos, Other(side))
        heavy_cost == Cost(pos, Other(side))
        light_cost == Cost(pos, side)
        shares_needed == -net_pos
    IN IF net_pos < 0
       THEN IF shares_needed = 0 \/ heavy_qty = 0
            THEN Frac(MAX_VALID_PRICE, 1)
            ELSE \* (heavy_qty * (1000 - heavy_avg) - light_cost) / shares_needed,
                 \* where heavy_qty * heavy_avg is the heavy side's cost
                 Frac(heavy_qty * ONE_DOLLAR_TICKS - heavy_cost - light_cost,
                      shares_needed)
       ELSE \* 1000 - avg_opp - BASE_MARGIN_TICKS, avg_opp = 0 when nothing is held
            IF heavy_qty <= 0
            THEN Frac(ONE_DOLLAR_TICKS - BASE_MARGIN_TICKS, 1)
            ELSE Frac((ONE_DOLLAR_TICKS - BASE_MARGIN_TICKS) * heavy_qty - heavy_cost,
                      heavy_qty)

_calc_p_mkt(side, book, pos) ==
    LET ask_opp == ask_or_1000(book, Other(side))
        anchor == ONE_DOLLAR_TICKS - ask_opp - BASE_MARGIN_TICKS
        net_pos == _get_net_position(side, pos)
        raw_skew == Frac(net_pos * GAMMA_TIMES_1000, SizeScale)
        skew == FracMax(Frac(-MAX_SKEW_TICKS, 1),
                        FracMin(Frac(MAX_SKEW_TICKS, 1), raw_skew))
    IN Frac(anchor * skew[2] - skew[1], skew[2])

_calc_cap_exec(side, book, pos) ==
    LET ask_this == ask_or_1000(book, side)
        net_pos == _get_net_position(side, pos)
    IN IF net_pos < 0
       THEN Frac(ask_this + SLIPPAGE_TOL_TICKS, 1)
       ELSE Frac(ask_this - TICK_SIZE, 1)

\* min(P_acct, P_mkt, Cap_exec)
gate_min(side, book, pos) ==
    FracMin(_calc_p_acct(side, pos),
            FracMin(_calc_p_mkt(side, book, pos), _calc_cap_exec(side, book, pos)))

_calc_final_price(side, book, pos) ==
    LET p_final == gate_min(side, book, pos)
    IN FracFloor(FracMax(Frac(MIN_PRICE, 1),
                         FracMin(Frac(MAX_VALID_PRICE, 1), p_final)))

\* ------------------------------------------------------------------------
\* Sizing and ladder construction
\* ------------------------------------------------------------------------
\* a sizing that ignores the inventory
_calc_target_size_flat(side, pos) == BASE_SIZE * SizeScale

\* a sizing whose scalar is not capped at 2
_calc_target_size_unclamped(side, pos) ==
    LET net_pos == _get_net_position(side, pos)
        full == MAX_POSITION * SizeScale
        raw == full - net_pos
        scalar == IF raw < 0 THEN 0 ELSE raw
    IN IF net_pos >= full THEN 0
       ELSE (BASE_SIZE * SizeScale * scalar) \div full

_calc_target_size(side, pos) ==
    LET net_pos == _get_net_position(side, pos)
        full == MAX_POSITION * SizeScale
        \* scalar = 1 - net/MAX_POSITION, as a multiple of 1/full, in [0, 2]
        raw == full - net_pos
        scalar == IF raw < 0 THEN 0 ELSE IF raw > 2 * full THEN 2 * full ELSE raw
    IN IF net_pos >= full THEN 0
       ELSE (BASE_SIZE * SizeScale * scalar) \div full

\* a ladder whose rungs are two ticks apart
_build_ideal_ladder_wide(p_final, target_size) ==
    IF target_size <= 0 THEN << >>
    ELSE [price \in {p \in {p_final - i * 2 * TICK_SIZE : i \in 0..(LADDER_DEPTH - 1)} :
                          p >= MIN_PRICE}
            |-> target_size]

\* {price |-> size}: a function from the rung prices to the target size
_build_ideal_ladder(p_final, target_size) ==
    IF target_size <= 0 THEN << >>
    ELSE [price \in {p \in {p_final - i * TICK_SIZE : i \in 0..(LADDER_DEPTH - 1)} :
                          p >= MIN_PRICE}
            |-> target_size]

\* ------------------------------------------------------------------------
\* Order tracker (execution/order_tracker.py).  The tracker is a set of
\* StandingOrder records; the side and price keys of the two dictionaries
\* are fields of the record.
\* ------------------------------------------------------------------------
StandingOrder(side, price, order_id, size) ==
    [order_id |-> order_id, side |-> side, price |-> price,
     remaining_size |-> size, original_size |-> size]

RECURSIVE SumSizes(_)
SumSizes(orders) ==
    IF orders = {} THEN 0
    ELSE LET o == CHOOSE x \in orders : TRUE
         IN o.remaining_size + SumSizes(orders \ {o})

get_prices(trk, side) == {o.price : o \in {x \in trk : x.side = side}}

get_orders_at_price(trk, side, price) ==
    {o \in trk : o.side = side /\ o.price = price}

get_total_size_at_price(trk, side, price) ==
    SumSizes(get_orders_at_price(trk, side, price))

add(trk, side, price, order_id, size) ==
    trk \cup {StandingOrder(side, price, order_id, size)}

\* a tracker that forgets nothing
remove_by_ids_keeps_all(trk, side, order_ids) == trk

\* a tracker that drops, with the ids, whatever either side holds at their prices
remove_by_ids_at_prices(trk, side, order_ids) ==
    LET prices == {o.price : o \in {x \in trk : x.side = side /\ x.order_id \in order_ids}}
    IN {o \in trk : o.price \notin prices}

remove_by_ids(trk, side, order_ids) ==
    {o \in trk : ~(o.side = side /\ o.order_id \in order_ids)}

\* find_by_order_id looks only under the given side
update_fill(trk, side, filled_size, order_id) ==
    IF ~\E o \in trk : o.side = side /\ o.order_id = order_id
    THEN trk
    ELSE LET o == CHOOSE x \in trk : x.side = side /\ x.order_id = order_id
             left == o.remaining_size - filled_size
         IN IF left <= 0
            THEN trk \ {o}
            ELSE (trk \ {o}) \cup {[o EXCEPT !.remaining_size = left]}

clear_all(trk) == {}

\* ------------------------------------------------------------------------
\* The diff engine: what one run of _reconcile_orders queues
\* ------------------------------------------------------------------------
ideal_ladder(side, book, pos) ==
    _build_ideal_ladder(_calc_final_price(side, book, pos),
                        _calc_target_size(side, pos))

\* PHASE 1: ids at prices that are not in the ideal ladder
stale_ids(trk, side, ladder) ==
    {o.order_id : o \in {x \in trk : x.side = side /\ x.price \notin DOMAIN ladder}}

\* a diff engine that shrinks only above twice the target
is_shrink_above_double(current_size, target) ==
    current_size > 2 * target

\* PHASE 2, SHRINK: current_size > target * (1 + HYSTERESIS)
is_shrink(current_size, target) ==
    current_size * 100 > target * (100 + HYSTERESIS_PCT)

shrink_ids(trk, side, ladder) ==
    {o.order_id : o \in {x \in trk : /\ x.side = side
                                     /\ x.price \in DOMAIN ladder
                                     /\ LET cur == get_total_size_at_price(trk, side, x.price)
                                        IN /\ cur # 0
                                           /\ ~(cur < ladder[x.price])
                                           /\ is_shrink(cur, ladder[x.price])}}

\* a diff engine that stacks any difference, however small
place_at_stacks_any(trk, side, price, target) ==
    LET cur == get_total_size_at_price(trk, side, price)
        min_size == MIN_ORDER_SIZE * SizeScale
    IN IF cur = 0
       THEN IF target >= min_size THEN {[price |-> price, size |-> target]} ELSE {}
       ELSE IF cur < target
       THEN {[price |-> price, size |-> target - cur]}
       ELSE IF is_shrink(cur, target)
       THEN IF target >= min_size THEN {[price |-> price, size |-> target]} ELSE {}
       ELSE {}

\* PHASE 2, PLACE / STACK / SHRINK: the (price, size) pairs queued
place_at(trk, side, price, target) ==
    LET cur == get_total_size_at_price(trk, side, price)
        min_size == MIN_ORDER_SIZE * SizeScale
    IN IF cur = 0
       THEN IF target >= min_size THEN {[price |-> price, size |-> target]} ELSE {}
       ELSE IF cur < target
       THEN IF target - cur >= min_size
            THEN {[price |-> price, size |-> target - cur]} ELSE {}
       ELSE IF is_shrink(cur, target)
       THEN IF target >= min_size THEN {[price |-> price, size |-> target]} ELSE {}
       ELSE {}

to_place(trk, side, ladder) ==
    UNION {place_at(trk, side, price, ladder[price]) : price \in DOMAIN ladder}

to_cancel_ids(trk, side, ladder) ==
    IF DOMAIN ladder = {} /\ get_prices(trk, side) = {}
    THEN {}
    ELSE stale_ids(trk, side, ladder) \cup shrink_ids(trk, side, ladder)

\* ------------------------------------------------------------------------
\* State
\* ------------------------------------------------------------------------
VARIABLES
    market_state,     \* orchestrator.market_state: market_id, best asks, per-side synced
    position_states,  \* the PositionState objects, one per window
    trader,           \* LiveTrader: position (index), trading_enabled, should_stop, ...,
                      \* and where the process is: constructed, running, exited
    executor,         \* RealExecutor: position (index), market_id (and its token ids)
    manager,          \* OrderManager: _initialized, _fill_lock
    tracker,          \* OrderManager.tracker
    tasks,            \* tasks created with asyncio.create_task, in creation order
    sync_task,        \* the _sync_position request in flight (its market id), or 0
    venue,            \* our orders resting on the venue, the next order id, and the
                      \* book snapshots the venue owes the current subscription
    counters,         \* how much of each bound of the model has been used
    last_rec,         \* per side: the inputs and outcome of the latest reconciliation
    hist,             \* history: profit lock / circuit breaker engaged in this window
    scheduler,        \* IngestionOrchestrator._switch_markets_periodically: the
                      \* wall clock, current_slug and where the loop stands
    socket,           \* PolymarketWebSocket: running, ws, reconnect_delay and where
                      \* connect() stands
    io                \* what the step just taken did at the venue boundary

vars == <<market_state, position_states, trader, executor, manager, tracker,
          tasks, sync_task, venue, counters, last_rec, hist, scheduler, socket, io>>

\* inputs of the environment: the best ask a market-data message carries,
\* in ticks; the YES book moves between two asks, the NO book keeps one
AskValues(side) == IF side = "yes" THEN {120, 130} ELSE {130}

\* data-api /positions responses: per side, size (hundredths) and cost
\* (ticks * hundredths), size 0 when the side is absent from the response
SyncResponses ==
    { [yes |-> [size |-> 5000, cost |-> 2000000], no |-> [size |-> 10000, cost |-> 4000000]],
      [yes |-> [size |-> 25000, cost |-> 21000000], no |-> [size |-> 0, cost |-> 0]] }

NoIO ==
    [op |-> "none", side |-> "none", caller |-> "none",
     cancel_req |-> {}, canceled |-> {}, gone |-> {},
     place_req |-> {}, placed |-> {},
     market_cancel |-> 0, expiring |-> 0, window |-> 0,
     event |-> "none", callback |-> FALSE, spawned |-> 0,
     rerun |-> FALSE, rerun_accepted |-> FALSE,
     fill_applied |-> TRUE,
     periodic |-> FALSE, breaker |-> FALSE, lock |-> FALSE,
     p_final |-> 0, ladder |-> << >>,
     order_id |-> 0, price |-> 0, size |-> 0, found |-> FALSE, remaining_before |-> 0,
     response |-> [kind |-> "none", answers |-> << >>]]

\* the loop before its first pass: the clock at the start of the first
\* window, current_slug that window's start
NoScheduler == [now |-> 0, current_slug |-> 0, pc |-> "evaluate", wake |-> 0,
                sleep |-> "none", target |-> 0, slept |-> FALSE]

\* PolymarketWebSocket.__init__; pc "idle": connect() has not been called;
\* stopped: disconnect() has been called
NoSocket == [pc |-> "idle", running |-> FALSE, ws |-> "none", reconnect_delay |-> 1,
             stopped |-> FALSE]

\* connect() has subscribed and stands in the loop of _handle_messages
Connected == [NoSocket EXCEPT !.pc = "handling", !.running = TRUE, !.ws = "open"]

\* the start (the timestamp of the slug) of the window with market id w
window_start(w) == (w - 1) * WINDOW_SECONDS

NoCounters == [book |-> 0, fills |-> 0, syncs |-> 0, failures |-> 0, drops |-> 0]

NoRec == [valid |-> FALSE, book |-> [yes |-> 0, no |-> 0],
          pos |-> PositionState, accepted |-> FALSE]

Init ==
    /\ market_state = [market_id |-> 1,
                       best_ask |-> [yes |-> 0, no |-> 0],
                       sync |-> [yes |-> FALSE, no |-> FALSE]]
    /\ position_states = [w \in 1..MaxWindows |-> PositionState]
    /\ trader = [position |-> 1, trading_enabled |-> FALSE, should_stop |-> FALSE,
                 markets_seen |-> 0, trading_started |-> FALSE,
                 phase |-> "constructed", startup_cancel |-> FALSE]
    /\ executor = [position |-> 1, market_id |-> 1]
    /\ manager = [initialized |-> FALSE, fill_lock |-> FALSE]
    /\ tracker = {}
    /\ tasks = << >>
    /\ sync_task = 0
    /\ venue = [orders |-> {}, next_id |-> 1, snapshots_due |-> {}]
    /\ counters = NoCounters
    /\ last_rec = [s \in Sides |-> NoRec]
    /\ hist = [profit_lock |-> FALSE, breaker |-> FALSE]
    /\ scheduler = NoScheduler
    /\ socket = NoSocket
    /\ io = NoIO

\* what a run has used of MaxIncidents
Incidents(cnt) == cnt.fills + cnt.syncs + cnt.failures + cnt.drops

\* ------------------------------------------------------------------------
\* Venue calls of the executor (execution/real_executor.py)
\* ------------------------------------------------------------------------
\* cancel_market_orders(market=...): every resting order of that market goes
cancel_all_orders(orders, market, ok) ==
    IF ok THEN {o \in orders : o.market # market} ELSE orders

\* cancel_orders(ids): the ids the venue reports under "canceled"
cancel_orders(orders, order_ids, ok) ==
    IF ok THEN {o.order_id : o \in {x \in orders : x.order_id \in order_ids}} ELSE {}

\* what the venue answers for one order of a batch: a dict with an orderID,
\* a dict with an errorMsg and no orderID, or an entry with neither
OrderResponses == {"orderID", "errorMsg", "neither"}

\* the orders of a batch whose response carries an orderID
accepted_of(places, response) ==
    IF response.kind # "list" THEN {}
    ELSE {p \in places : response.answers[p.price] = "orderID"}

\* a batch handler that tracks every order it sent
_place_batch_trusts_all(places, side, market, next_id, response) ==
    {[order_id |-> next_id + Cardinality({q \in places : q.price > p.price}),
      market |-> market, side |-> side, price |-> p.price, size |-> p.size]
     : p \in places}

\* _place_batch: the (side, price, order_id, size) tuples it returns, one per
\* response that carries an orderID (ids ascend down the ladder, the order
\* of the batch).  response.kind is "exception" when create_order or
\* post_orders raises, "no_response" for an empty response, and "list" for a
\* list of per-order answers, kept by the price of the order they answer.
_place_batch(places, side, market, next_id, response) ==
    LET accepted == accepted_of(places, response)
    IN {[order_id |-> next_id + Cardinality({q \in accepted : q.price > p.price}),
         market |-> market, side |-> side, price |-> p.price, size |-> p.size]
        : p \in accepted}

\* place_orders_batch with a batch the venue takes or refuses as a whole
place_orders_batch(places, side, market, next_id, ok) ==
    _place_batch(places, side, market, next_id,
                 IF ok THEN [kind |-> "list",
                             answers |-> [price \in {p.price : p \in places} |-> "orderID"]]
                 ELSE [kind |-> "exception", answers |-> << >>])

RECURSIVE add_placed(_, _)
add_placed(trk, placed) ==
    IF placed = {} THEN trk
    ELSE LET o == CHOOSE x \in placed : TRUE
         IN add_placed(add(trk, o.side, o.price, o.order_id, o.size), placed \ {o})

\* One run of _reconcile_orders(side, market_state, position_state) on the
\* tracker trk, by the handler `caller`; extra is the rest of the step's io.
_reconcile_orders(trk, recs, side, book, pos, extra) ==
    LET ladder == ideal_ladder(side, book, pos)
        cancels == to_cancel_ids(trk, side, ladder)
        places == to_place(trk, side, ladder)
    IN \E cancel_ok \in BOOLEAN, place_ok \in BOOLEAN :
        /\ cancels = {} => cancel_ok
        /\ places = {} => place_ok
        /\ LET failed == (IF cancel_ok THEN 0 ELSE 1) + (IF place_ok THEN 0 ELSE 1)
               canceled == cancel_orders(venue.orders, cancels, cancel_ok)
               gone == IF cancel_ok THEN cancels \ canceled ELSE {}
               placed == place_orders_batch(places, side, executor.market_id,
                                            venue.next_id, place_ok)
           IN /\ counters.failures + failed <= MaxVenueFailures
              /\ Incidents(counters) + failed <= MaxIncidents
              /\ counters' = [counters EXCEPT !.failures = @ + failed]
              /\ tracker' = add_placed(remove_by_ids(trk, side, cancels), placed)
              /\ venue' = [venue EXCEPT
                             !.orders = {o \in @ : o.order_id \notin canceled} \cup placed,
                             !.next_id = @ + Cardinality(placed)]
              /\ last_rec' = [recs EXCEPT ![side] =
                                 [valid |-> TRUE, book |-> book, pos |-> pos,
                                  accepted |-> place_ok]]
              /\ io' = [extra EXCEPT
                          !.op = "reconcile", !.side = side,
                          !.cancel_req = cancels, !.canceled = canceled, !.gone = gone,
                          !.place_req = places,
                          !.placed = {o.order_id : o \in placed},
                          !.rerun = /\ recs[side].valid
                                    /\ recs[side].book = book
                                    /\ recs[side].pos = pos,
                          !.rerun_accepted = recs[side].accepted,
                          !.p_final = _calc_final_price(side, book, pos)]

\* ------------------------------------------------------------------------
\* Tasks (asyncio.create_task).  A task holds the arguments its coroutine
\* was created with; pc is the await it stands before.
\* ------------------------------------------------------------------------
Task(kind) ==
    [kind |-> kind, pc |-> 1, book |-> [yes |-> 0, no |-> 0], pos |-> 0,
     side |-> "none", size |-> 0, order_id |-> 0, applied |-> TRUE, expiring |-> 0]

RemoveAt(seq, i) == SubSeq(seq, 1, i - 1) \o SubSeq(seq, i + 1, Len(seq))

\* the event loop starts tasks in creation order; an on_fill task waiting
\* for the fill lock does not hold back the tasks behind it
MayRun(i) ==
    tasks[i].pc = 1 =>
        \A j \in 1..(i - 1) :
            \/ tasks[j].pc # 1
            \/ tasks[j].kind = "on_fill" /\ manager.fill_lock

NoRecs == [s \in Sides |-> NoRec]

\* no handler is between two of its awaits: the handlers make their venue
\* calls without suspending, so messages from the sockets and timers are
\* served between handler bodies; the awaits are scheduling points for the
\* tasks already on the loop
BetweenTasks == \A i \in 1..Len(tasks) : tasks[i].pc = 1

\* ------------------------------------------------------------------------
\* The supervisor (live_trade.py)
\* ------------------------------------------------------------------------
circuit_breaker_trips(pos) ==
    pos.Cy + pos.Cn >= CIRCUIT_BREAKER_USD * ONE_DOLLAR_TICKS * SizeScale

\* min_qty * (1000 - (avg_y + avg_n)) / 1000 >= PROFIT_LOCK_MIN, with the
\* smaller side's average folded into the left-hand fraction
profit_lock_engages(pos) ==
    LET small == IF pos.Qy <= pos.Qn THEN "yes" ELSE "no"
        min_qty == Qty(pos, small)
        threshold == PROFIT_LOCK_MIN * ONE_DOLLAR_TICKS * SizeScale
    IN /\ min_qty > 0
       /\ FracLeq(Frac(Cost(pos, Other(small)), Qty(pos, Other(small))),
                  Frac(ONE_DOLLAR_TICKS * min_qty - Cost(pos, small) - threshold,
                       min_qty))

\* the process is past start-up and has not exited
Running == trader.phase = "running"

\* os._exit, or asyncio.run returning: the process and everything it held in
\* memory are gone; vn is what it leaves resting at the venue
Exited(vn, exit_io) ==
    /\ market_state' = [market_id |-> 1,
                        best_ask |-> [yes |-> 0, no |-> 0],
                        sync |-> [yes |-> FALSE, no |-> FALSE]]
    /\ position_states' = [w \in 1..MaxWindows |-> PositionState]
    /\ trader' = [position |-> 1, trading_enabled |-> FALSE, should_stop |-> TRUE,
                  markets_seen |-> 0, trading_started |-> FALSE,
                  phase |-> "exited", startup_cancel |-> TRUE]
    /\ executor' = [position |-> 1, market_id |-> 1]
    /\ manager' = [initialized |-> FALSE, fill_lock |-> FALSE]
    /\ tracker' = {}
    /\ tasks' = << >>
    /\ sync_task' = 0
    /\ venue' = [vn EXCEPT !.snapshots_due = {}]
    /\ counters' = NoCounters
    /\ last_rec' = NoRecs
    /\ hist' = [profit_lock |-> FALSE, breaker |-> FALSE]
    /\ scheduler' = NoScheduler
    /\ socket' = NoSocket
    /\ io' = exit_io

\* a start that never reaches its cancel call
start_cancels_never == FALSE

\* LiveTrader.start issues executor.cancel_all_orders() before it starts the
\* sockets (an error of the call is logged and start goes on)
start_cancels == TRUE

\* a supervisor that trades the window in progress at start-up
enables_trading_at_once(enabled, seen) == TRUE

\* _on_market_switch with skip_first_market: trading is enabled at the
\* second market the supervisor sees
enables_trading(enabled, seen) ==
    IF ~enabled /\ seen >= 2 THEN TRUE ELSE enabled

\* LiveTrader.start up to the point where the sockets are connected:
\* orchestrator.initialize() (which reports the first market through
\* _on_market_switch), the executor, the start-up cancel, the subscription
start ==
    /\ trader.phase = "constructed"
    /\ trader' = [trader EXCEPT
                    !.markets_seen = @ + 1,
                    !.trading_enabled = enables_trading(@, trader.markets_seen + 1),
                    !.phase = "running",
                    !.startup_cancel = start_cancels]
    /\ venue' = [venue EXCEPT
                   !.orders = IF start_cancels
                              THEN cancel_all_orders(@, executor.market_id, TRUE) ELSE @,
                   !.snapshots_due = Sides]
    /\ socket' = Connected
    /\ io' = [NoIO EXCEPT !.op = "start",
                          !.market_cancel = IF start_cancels
                                            THEN executor.market_id ELSE 0]
    /\ UNCHANGED <<scheduler, market_state, position_states, executor, manager, tracker,
                   tasks, sync_task, counters, last_rec, hist>>

\* the three early returns of _on_market_update
acts_on(ms) ==
    ms.sync.yes /\ ms.sync.no /\ trader.trading_enabled /\ ~trader.should_stop

\* _on_market_update, with _periodic_check, for the snapshot ms of the book;
\* vn is the venue and event the kind of message that led to the callback.
\* periodic_due: REFRESH_INTERVAL_MS has passed; sync_due: 15 s have passed.
_on_market_update(ms, vn, cnt, event, periodic_due, sync_due, cancel_ok) ==
    LET pos == position_states[trader.position]
        init_tasks == IF trader.trading_started THEN << >>
                      ELSE << [Task("initialize") EXCEPT !.book = ms.best_ask,
                                                         !.pos = trader.position] >>
        price_task == [Task("on_price_change") EXCEPT !.book = ms.best_ask,
                                                      !.pos = trader.position]
        breaker == periodic_due /\ circuit_breaker_trips(pos)
        lock == periodic_due /\ ~breaker /\ profit_lock_engages(pos)
        starts_sync == periodic_due /\ sync_due
    IN IF ~acts_on(ms)
       THEN /\ ~periodic_due /\ ~sync_due /\ cancel_ok
            /\ counters' = counters
            /\ venue' = vn
            /\ io' = [NoIO EXCEPT !.op = "update", !.event = event, !.callback = TRUE]
            /\ UNCHANGED <<socket, scheduler, trader, tasks, sync_task, hist>>
       ELSE /\ cnt.book <= MaxBookEvents
            /\ Len(tasks) + Len(init_tasks) + 1 <= MaxTasks
            /\ sync_due => periodic_due /\ sync_task = 0 /\ cnt.syncs < MaxSyncs
            /\ ~cancel_ok => (breaker \/ lock) /\ cnt.failures < MaxVenueFailures
            /\ Incidents(cnt) + (IF sync_due THEN 1 ELSE 0)
                  + (IF cancel_ok THEN 0 ELSE 1) <= MaxIncidents
            /\ tasks' = tasks \o init_tasks \o << price_task >>
            /\ sync_task' = IF starts_sync THEN ms.market_id ELSE sync_task
            /\ counters' = [cnt EXCEPT !.syncs = IF starts_sync THEN @ + 1 ELSE @,
                                       !.failures = IF cancel_ok THEN @ ELSE @ + 1]
            /\ venue' = IF breaker \/ lock
                        THEN [vn EXCEPT !.orders =
                                 cancel_all_orders(@, executor.market_id, cancel_ok)]
                        ELSE vn
            /\ trader' = [trader EXCEPT
                            !.trading_started = TRUE,
                            !.should_stop = IF breaker THEN TRUE ELSE @,
                            !.trading_enabled = IF lock THEN FALSE ELSE @]
            /\ hist' = [hist EXCEPT !.breaker = @ \/ breaker,
                                    !.profit_lock = @ \/ lock]
            /\ io' = [NoIO EXCEPT
                        !.op = "update", !.event = event, !.callback = TRUE,
                        !.spawned = Len(init_tasks) + 1,
                        !.periodic = periodic_due,
                        !.breaker = breaker, !.lock = lock,
                        !.market_cancel = IF breaker \/ lock
                                          THEN executor.market_id ELSE 0]

\* the --seconds branch of _on_market_update: stop, cancel, os._exit(0)
time_limit_exit(vn, cancel_ok) ==
    Exited([vn EXCEPT !.orders = cancel_all_orders(@, executor.market_id, cancel_ok)],
           [NoIO EXCEPT !.op = "exit", !.caller = "time_limit",
                        !.market_cancel = executor.market_id])

\* self.on_state_update(self.market_state.snapshot()) at the end of a message
\* handler: the supervisor's _on_market_update, which ends the process when
\* time_up (max_seconds is set and that much time has passed since the first
\* update the supervisor acted on in this window)
on_state_update(ms, vn, event, periodic_due, sync_due, cancel_ok, time_up) ==
    IF time_up
    THEN /\ acts_on(ms) /\ trader.trading_started
         /\ ~periodic_due /\ ~sync_due
         /\ counters.book < MaxBookEvents
         /\ ~cancel_ok => /\ counters.failures < MaxVenueFailures
                          /\ Incidents(counters) < MaxIncidents
         /\ time_limit_exit(vn, cancel_ok)
    ELSE /\ market_state' = ms
         /\ _on_market_update(ms, vn, [counters EXCEPT !.book = @ + 1], event,
                              periodic_due, sync_due, cancel_ok)
         /\ UNCHANGED <<socket, scheduler, position_states, executor, manager, tracker, last_rec>>

\* the loop of _handle_messages is reading from an open connection
Receiving == socket.pc = "handling" /\ socket.ws = "open"

\* PolymarketWebSocket._handle_book_message for a token of the subscription:
\* the snapshot the venue sends after a subscribe
BookSnapshot ==
    \E side \in Sides :
      \E ask \in AskValues(side),
         periodic_due \in BOOLEAN, sync_due \in BOOLEAN, cancel_ok \in BOOLEAN,
         time_up \in BOOLEAN :
        /\ Running /\ BetweenTasks /\ Receiving
        /\ side \in venue.snapshots_due
        /\ on_state_update(
              [market_state EXCEPT !.best_ask[side] = ask, !.sync[side] = TRUE],
              [venue EXCEPT !.snapshots_due = @ \ {side}],
              "book", periodic_due, sync_due, cancel_ok, time_up)

\* PolymarketWebSocket._handle_price_change_message for a token of the
\* subscription
PriceChange ==
    \E side \in Sides :
      \E ask \in AskValues(side),
         periodic_due \in BOOLEAN, sync_due \in BOOLEAN, cancel_ok \in BOOLEAN,
         time_up \in BOOLEAN :
        /\ Running /\ BetweenTasks /\ Receiving
        /\ market_state.sync.yes /\ market_state.sync.no
        /\ on_state_update([market_state EXCEPT !.best_ask[side] = ask], venue,
                           "price_change", periodic_due, sync_due, cancel_ok, time_up)

\* an executor that books every fill, whatever its asset id
handle_ws_fill_any_asset(pos, matches, side, price, size) ==
    IF side = "yes"
    THEN [pos EXCEPT !.Qy = @ + size, !.Cy = @ + price * size]
    ELSE [pos EXCEPT !.Qn = @ + size, !.Cn = @ + price * size]

\* a fill handler that books the shares but not their cost
handle_ws_fill_no_cost(pos, matches, side, price, size) ==
    IF ~matches THEN pos
    ELSE IF side = "yes"
    THEN [pos EXCEPT !.Qy = @ + size]
    ELSE [pos EXCEPT !.Qn = @ + size]

\* RealExecutor.handle_ws_fill: the ledger after the fill, unchanged when the
\* asset is neither token of the executor's market
handle_ws_fill(pos, matches, side, price, size) ==
    IF ~matches THEN pos
    ELSE IF side = "yes"
    THEN [pos EXCEPT !.Qy = @ + size, !.Cy = @ + price * size]
    ELSE [pos EXCEPT !.Qn = @ + size, !.Cn = @ + price * size]

\* the size the venue matches of a resting order: a lot of the minimum
\* order size (a partial fill), or all of an order no larger than that
FillSizes(o) ==
    IF o.size > MIN_ORDER_SIZE * SizeScale
    THEN {MIN_ORDER_SIZE * SizeScale} ELSE {o.size}

\* the venue matches the best-priced of our resting orders of a token
IsTopOfBook(o) ==
    \A x \in venue.orders : x.market = o.market /\ x.side = o.side => x.price <= o.price

\* The venue matches one of our resting orders and the user channel delivers
\* the MATCHED trade: LiveTrader._on_ws_fill.
WsFill ==
    \E o \in venue.orders :
      \E size \in FillSizes(o) :
        LET matches == o.market = executor.market_id
            \* side = "yes" if asset_id == token_id_yes else "no"
            side == IF matches /\ o.side = "yes" THEN "yes" ELSE "no"
            fill_task == [Task("on_fill") EXCEPT
                            !.pos = trader.position, !.side = side, !.size = size,
                            !.order_id = o.order_id, !.applied = matches]
        IN /\ IsTopOfBook(o)
           /\ Running /\ BetweenTasks
           /\ counters.fills < MaxFills /\ Incidents(counters) < MaxIncidents
           /\ trader.trading_enabled => Len(tasks) < MaxTasks
           /\ counters' = [counters EXCEPT !.fills = @ + 1]
           /\ venue' = [venue EXCEPT !.orders =
                          (@ \ {o}) \cup (IF size < o.size
                                          THEN {[o EXCEPT !.size = @ - size]} ELSE {})]
           /\ position_states' =
                 [position_states EXCEPT ![executor.position] =
                     handle_ws_fill(@, matches, o.side, o.price, size)]
           /\ tasks' = IF trader.trading_enabled THEN Append(tasks, fill_task) ELSE tasks
           /\ io' = [NoIO EXCEPT !.op = "fill", !.side = side, !.fill_applied = matches,
                                 !.order_id = o.order_id, !.price = o.price, !.size = size]
           /\ UNCHANGED <<socket, scheduler, market_state, trader, executor, manager, tracker,
                          sync_task, last_rec, hist>>

\* PolymarketWebSocket.switch_markets(new ids): both sides lose synced
switch_markets(ms) == [ms EXCEPT !.sync = [yes |-> FALSE, no |-> FALSE]]

\* IngestionOrchestrator._switch_markets_periodically from the point where
\* the market has changed to window new_id, with LiveTrader._on_market_switch
\* as its callback and the subscription switch it awaits taken in the same
\* step; sched is the loop's state after the pass.
\* limit_hit: max_markets is set and markets_traded has just reached it.
roll_to(new_id, limit_hit, sched) ==
    LET old_id == market_state.market_id
        seen == trader.markets_seen + 1
        \* skip_first_market is True
        enabled == enables_trading(trader.trading_enabled, seen)
        switch_task == [Task("on_market_switch") EXCEPT !.expiring = old_id]
        old_pos == position_states[trader.position]
    IN /\ old_id < new_id /\ new_id <= MaxWindows
       /\ Running /\ BetweenTasks
       /\ enabled => Len(tasks) < MaxTasks
       /\ IF limit_hit
          THEN \* markets_traded is counted when the window ends with a position
               /\ enabled /\ (old_pos.Qy > 0 \/ old_pos.Qn > 0)
               /\ Exited(venue, [NoIO EXCEPT !.op = "exit", !.caller = "market_limit"])
          ELSE /\ market_state' = switch_markets([market_state EXCEPT !.market_id = new_id])
               /\ position_states' = [position_states EXCEPT ![new_id] = PositionState]
               /\ tasks' = IF enabled THEN Append(tasks, switch_task) ELSE tasks
               /\ trader' = [trader EXCEPT !.markets_seen = seen,
                                           !.trading_enabled = enabled,
                                           !.position = new_id,
                                           !.trading_started = FALSE]
               /\ executor' = [position |-> new_id, market_id |-> new_id]
               /\ hist' = [profit_lock |-> FALSE, breaker |-> FALSE]
               \* the venue answers the new subscription with both books
               /\ venue' = [venue EXCEPT !.snapshots_due = Sides]
               /\ scheduler' = sched
               /\ io' = [NoIO EXCEPT !.op = "roll", !.expiring = old_id]
               /\ UNCHANGED <<socket, manager, tracker, sync_task, counters, last_rec>>

\* a pass of the loop taken as one step, at the start of the next window
MarketSwitch ==
    \E limit_hit \in BOOLEAN :
        LET next_start == window_start(market_state.market_id + 1)
        IN roll_to(market_state.market_id + 1, limit_hit,
                   [scheduler EXCEPT !.now = next_start, !.current_slug = next_start])

\* SIGINT / SIGTERM: force_exit calls os._exit(0) from the signal handler
SignalExit ==
    /\ Running
    /\ Exited(venue, [NoIO EXCEPT !.op = "exit", !.caller = "signal"])

\* orchestrator.start() returns (both sockets have ended) or is cancelled:
\* the finally block of LiveTrader.start cancels all orders and stops
IngestionEnds ==
    \E cancel_ok \in BOOLEAN :
        /\ Running /\ BetweenTasks
        /\ ~cancel_ok => /\ counters.failures < MaxVenueFailures
                         /\ Incidents(counters) < MaxIncidents
        /\ Exited([venue EXCEPT !.orders =
                      cancel_all_orders(@, executor.market_id, cancel_ok)],
                  [NoIO EXCEPT !.op = "exit", !.caller = "ingestion_end",
                               !.market_cancel = executor.market_id])

\* LiveTrader._sync_position after the response: sync UP only
sync_side(pos, side, r) ==
    IF r[side].size > Qty(pos, side) + SizeScale
    THEN IF side = "yes"
         THEN [pos EXCEPT !.Qy = r.yes.size, !.Cy = r.yes.cost]
         ELSE [pos EXCEPT !.Qn = r.no.size, !.Cn = r.no.cost]
    ELSE pos

\* the loop of _sync_position over the positions of the response r
apply_sync(pos, r) == sync_side(sync_side(pos, "yes", r), "no", r)

SyncPosition ==
    \E r \in SyncResponses :
        /\ sync_task # 0
        /\ Running /\ BetweenTasks
        /\ sync_task' = 0
        \* the response names the tokens of the market asked for
        /\ position_states' =
              IF sync_task = executor.market_id
              THEN [position_states EXCEPT ![trader.position] = apply_sync(@, r)]
              ELSE position_states
        /\ io' = [NoIO EXCEPT !.op = "sync"]
        /\ UNCHANGED <<socket, scheduler, market_state, trader, executor, manager, tracker, tasks,
                       venue, counters, last_rec, hist>>

\* ------------------------------------------------------------------------
\* The order manager's handlers (execution/order_manager.py)
\* ------------------------------------------------------------------------
TaskIO(t) == [NoIO EXCEPT !.caller = t.kind, !.fill_applied = t.applied,
                          !.window = t.pos]

\* OrderManager.initialize
initialize ==
    \E i \in 1..Len(tasks) :
        LET t == tasks[i] IN
        /\ t.kind = "initialize" /\ MayRun(i)
        /\ _reconcile_orders(tracker, last_rec, IF t.pc = 1 THEN "yes" ELSE "no",
                             t.book, position_states[t.pos], TaskIO(t))
        /\ tasks' = IF t.pc = 1 THEN [tasks EXCEPT ![i].pc = 2] ELSE RemoveAt(tasks, i)
        /\ manager' = IF t.pc = 1 THEN manager ELSE [manager EXCEPT !.initialized = TRUE]
        /\ UNCHANGED <<socket, scheduler, market_state, position_states, trader, executor, sync_task, hist>>

\* OrderManager.on_price_change
on_price_change ==
    \E i \in 1..Len(tasks) :
        LET t == tasks[i] IN
        /\ t.kind = "on_price_change" /\ MayRun(i)
        /\ IF t.pc = 1 /\ ~manager.initialized
           THEN /\ tasks' = RemoveAt(tasks, i)
                /\ io' = TaskIO(t)
                /\ UNCHANGED <<socket, scheduler, tracker, venue, counters, last_rec>>
           ELSE /\ _reconcile_orders(tracker, last_rec, IF t.pc = 1 THEN "yes" ELSE "no",
                                     t.book, position_states[t.pos], TaskIO(t))
                /\ tasks' = IF t.pc = 1 THEN [tasks EXCEPT ![i].pc = 2]
                            ELSE RemoveAt(tasks, i)
        /\ UNCHANGED <<socket, scheduler, market_state, position_states, trader, executor, manager,
                       sync_task, hist>>

\* a lock that admits every caller
lock_always_free(i) == TRUE

\* async with self._fill_lock: entered only when the lock is free
lock_free(i) == ~manager.fill_lock

\* OrderManager.on_fill
on_fill ==
    \E i \in 1..Len(tasks) :
        LET t == tasks[i] IN
        /\ t.kind = "on_fill" /\ MayRun(i)
        /\ IF t.pc = 1
           THEN /\ lock_free(i)
                /\ manager' = [manager EXCEPT !.fill_lock = TRUE]
                /\ _reconcile_orders(update_fill(tracker, t.side, t.size, t.order_id),
                                     NoRecs, "yes", market_state.best_ask,
                                     position_states[t.pos], TaskIO(t))
                /\ tasks' = [tasks EXCEPT ![i].pc = 2]
           ELSE /\ manager' = [manager EXCEPT !.fill_lock = FALSE]
                /\ _reconcile_orders(tracker, last_rec, "no", market_state.best_ask,
                                     position_states[t.pos], TaskIO(t))
                /\ tasks' = RemoveAt(tasks, i)
        /\ UNCHANGED <<socket, scheduler, market_state, position_states, trader, executor, sync_task, hist>>

\* OrderManager.on_market_switch
on_market_switch ==
    \E i \in 1..Len(tasks), cancel_ok \in BOOLEAN :
        LET t == tasks[i] IN
        /\ t.kind = "on_market_switch" /\ MayRun(i)
        /\ ~cancel_ok => counters.failures < MaxVenueFailures
                          /\ Incidents(counters) < MaxIncidents
        /\ counters' = [counters EXCEPT !.failures = IF cancel_ok THEN @ ELSE @ + 1]
        /\ tracker' = clear_all(tracker)
        /\ venue' = [venue EXCEPT !.orders =
                        cancel_all_orders(@, executor.market_id, cancel_ok)]
        /\ manager' = [manager EXCEPT !.initialized = FALSE]
        /\ last_rec' = NoRecs
        /\ tasks' = RemoveAt(tasks, i)
        /\ io' = [TaskIO(t) EXCEPT !.op = "market_switch",
                                   !.market_cancel = executor.market_id,
                                   !.expiring = t.expiring]
        /\ UNCHANGED <<socket, scheduler, market_state, position_states, trader, executor, sync_task, hist>>

Next ==
    \/ start
    \/ BookSnapshot
    \/ PriceChange
    \/ WsFill
    \/ MarketSwitch
    \/ SyncPosition
    \/ initialize
    \/ on_price_change
    \/ on_fill
    \/ on_market_switch
    \/ SignalExit
    \/ IngestionEnds

Spec == Init /\ [][Next]_vars

\* ------------------------------------------------------------------------
\* The market-data socket in more detail: messages for tokens of a window
\* that has ended, and a lost connection.  The user channel is silent in
\* these runs (no fills) and position syncs get no response.
\* ------------------------------------------------------------------------
\* _handle_book_message for an asset id that is not in clob_token_ids: the
\* handler returns before it touches the book
StrayBookSnapshot ==
    /\ Running /\ BetweenTasks /\ Receiving
    /\ market_state.market_id > 1
    /\ io' = [NoIO EXCEPT !.op = "update", !.event = "stray_book"]
    /\ UNCHANGED <<socket, scheduler, market_state, position_states, trader, executor, manager,
                   tracker, tasks, sync_task, venue, counters, last_rec, hist>>

\* _handle_price_change_message whose price_changes all carry asset ids that
\* are not in clob_token_ids: each change is skipped, and the handler then
\* goes on to its end
StrayPriceChange ==
    \E periodic_due \in BOOLEAN, sync_due \in BOOLEAN, cancel_ok \in BOOLEAN,
       time_up \in BOOLEAN :
        /\ Running /\ BetweenTasks /\ Receiving
        /\ market_state.market_id > 1
        /\ IF ~(market_state.sync.yes /\ market_state.sync.no)
           THEN /\ ~periodic_due /\ ~sync_due /\ cancel_ok /\ ~time_up
                /\ io' = [NoIO EXCEPT !.op = "update", !.event = "stray_price_change"]
                /\ UNCHANGED <<socket, scheduler, market_state, position_states, trader, executor,
                               manager, tracker, tasks, sync_task, venue, counters,
                               last_rec, hist>>
           ELSE on_state_update(market_state, venue, "stray_price_change",
                                periodic_due, sync_due, cancel_ok, time_up)

\* The connection closes: _handle_messages catches ConnectionClosed, sets
\* running False and returns; the loop of connect() connects and subscribes
\* again, and the venue answers with both books.  market_state is not touched.
ConnectionDrop ==
    /\ Running /\ BetweenTasks
    /\ counters.drops < MaxDrops /\ Incidents(counters) < MaxIncidents
    /\ counters' = [counters EXCEPT !.drops = @ + 1]
    /\ venue' = [venue EXCEPT !.snapshots_due = Sides]
    /\ io' = [NoIO EXCEPT !.op = "reconnect"]
    /\ UNCHANGED <<socket, scheduler, market_state, position_states, trader, executor, manager,
                   tracker, tasks, sync_task, last_rec, hist>>

FeedNext ==
    \/ start
    \/ BookSnapshot
    \/ PriceChange
    \/ StrayBookSnapshot
    \/ StrayPriceChange
    \/ ConnectionDrop
    \/ MarketSwitch
    \/ initialize
    \/ on_price_change
    \/ on_market_switch
    \/ SignalExit
    \/ IngestionEnds

FeedSpec == Init /\ [][FeedNext]_vars

\* ------------------------------------------------------------------------
\* The pricing functions and the position sync on their own: every ledger
\* and book of the sets below, each side's price computed, and a response of
\* the positions endpoint applied
\* ------------------------------------------------------------------------
\* shares held of a side, in hundredths
GateQuantities == {0, 1000, 7500, 20000}
\* average price paid for a side, in ticks
GateAverages == {400, 950}
\* best asks, 0 for an unknown ask
GateAsks == {0, 110, 120, 500, 950}

GateLedgers ==
    {[Qy |-> qy, Qn |-> qn, Cy |-> qy * ay, Cn |-> qn * an] :
        qy \in GateQuantities, qn \in GateQuantities,
        ay \in GateAverages, an \in GateAverages}

GateInit ==
    /\ \E ask_yes \in GateAsks, ask_no \in GateAsks :
          market_state = [market_id |-> 1,
                          best_ask |-> [yes |-> ask_yes, no |-> ask_no],
                          sync |-> [yes |-> TRUE, no |-> TRUE]]
    /\ \E pos \in GateLedgers :
          position_states = [w \in 1..MaxWindows |-> IF w = 1 THEN pos ELSE PositionState]
    /\ trader = [position |-> 1, trading_enabled |-> FALSE, should_stop |-> FALSE,
                 markets_seen |-> 1, trading_started |-> FALSE,
                 phase |-> "running", startup_cancel |-> TRUE]
    /\ executor = [position |-> 1, market_id |-> 1]
    /\ manager = [initialized |-> FALSE, fill_lock |-> FALSE]
    /\ tracker = {}
    /\ tasks = << >>
    /\ sync_task = 0
    /\ venue = [orders |-> {}, next_id |-> 1, snapshots_due |-> {}]
    /\ counters = NoCounters
    /\ last_rec = NoRecs
    /\ hist = [profit_lock |-> FALSE, breaker |-> FALSE]
    /\ scheduler = NoScheduler
    /\ socket = NoSocket
    /\ io = NoIO

\* the head of _reconcile_orders for a side: _calc_final_price,
\* _calc_target_size and _build_ideal_ladder on the book and the ledger
GateProbe ==
    \E side \in Sides :
        /\ io' = [NoIO EXCEPT
                    !.op = "gate", !.side = side,
                    !.p_final = _calc_final_price(side, market_state.best_ask,
                                                  position_states[trader.position]),
                    !.ladder = ideal_ladder(side, market_state.best_ask,
                                            position_states[trader.position])]
        /\ UNCHANGED <<socket, scheduler, market_state, position_states, trader, executor, manager,
                       tracker, tasks, sync_task, venue, counters, last_rec, hist>>

\* responses of the positions endpoint: those above, and one that reports
\* 11.5 YES shares bought at 0.40 (fills the bot missed) while the endpoint
\* does not yet show the fills the ledger has
GateSyncResponses ==
    SyncResponses \cup
    { [yes |-> [size |-> 1150, cost |-> 460000], no |-> [size |-> 0, cost |-> 0]] }

\* _sync_position from the response on, for the current window's ledger
SyncProbe ==
    \E r \in GateSyncResponses :
        /\ position_states' = [position_states EXCEPT ![trader.position] = apply_sync(@, r)]
        /\ io' = [NoIO EXCEPT !.op = "sync"]
        /\ UNCHANGED <<socket, scheduler, market_state, trader, executor, manager, tracker, tasks,
                       sync_task, venue, counters, last_rec, hist>>

GateNext == GateProbe \/ SyncProbe

GateSpec == GateInit /\ [][GateNext]_vars

\* ------------------------------------------------------------------------
\* The order tracker on its own, in the layout of the code: per side a dict
\* from price to the list of the orders resting at that price.  In
\* TrackerSpec the variable tracker holds [yes |-> dict, no |-> dict]; a
\* dict is a function whose domain is its key set.
\* ------------------------------------------------------------------------
\* prices orders are added at and fills are reported at
TrackerPrices == {100, 110}
\* sizes of added orders, in hundredths
TrackerSizes == {500, 1000}
\* sizes of fills: below, equal to and above what an order has left
TrackerFillSizes == {500, 1000, 1500}

\* OrderTracker.__init__
EmptyTracker == [side \in Sides |-> << >>]

\* del orders[price]
DelKey(orders, price) == [p \in DOMAIN orders \ {price} |-> orders[p]]

\* a pop that leaves the emptied list under its price
PopAt_keeps_level(orders, price, i) ==
    [orders EXCEPT ![price] = RemoveAt(@, i)]

\* order_list.pop(i), and the clean-up of an empty price level
PopAt(orders, price, i) ==
    LET order_list == RemoveAt(orders[price], i)
    IN IF order_list = << >>
       THEN DelKey(orders, price)
       ELSE [orders EXCEPT ![price] = order_list]

IndexOf(order_list, order_id) ==
    CHOOSE i \in 1..Len(order_list) : order_list[i].order_id = order_id

OrderTracker_add(trk, side, price, order_id, size) ==
    LET orders == trk[side]
        order == [order_id |-> order_id, price |-> price,
                  remaining_size |-> size, original_size |-> size]
    IN [trk EXCEPT ![side] =
          IF price \notin DOMAIN orders
          THEN [p \in DOMAIN orders \cup {price} |->
                   IF p = price THEN <<order>> ELSE orders[p]]
          ELSE [orders EXCEPT ![price] = Append(@, order)]]

\* the price level that holds order_id, 0 for None
OrderTracker_find_by_order_id(trk, side, order_id) ==
    LET orders == trk[side]
        hits == {p \in DOMAIN orders :
                    \E i \in 1..Len(orders[p]) : orders[p][i].order_id = order_id}
    IN IF hits = {} THEN 0 ELSE CHOOSE p \in hits : TRUE

OrderTracker_remove_by_id(trk, side, order_id) ==
    LET price == OrderTracker_find_by_order_id(trk, side, order_id)
    IN IF price = 0 THEN trk
       ELSE [trk EXCEPT ![side] = PopAt(@, price, IndexOf(@[price], order_id))]

RECURSIVE OrderTracker_remove_by_ids(_, _, _)
OrderTracker_remove_by_ids(trk, side, order_ids) ==
    IF order_ids = {} THEN trk
    ELSE LET order_id == CHOOSE x \in order_ids : TRUE
         IN OrderTracker_remove_by_ids(OrderTracker_remove_by_id(trk, side, order_id),
                                       side, order_ids \ {order_id})

\* an update_fill that looks the order up at the reported fill price
OrderTracker_update_fill_by_price(trk, side, price, filled_size, order_id) ==
    IF price \notin DOMAIN trk[side] THEN trk
    ELSE LET left == trk[side][price][1].remaining_size - filled_size
         IN IF left * 1000 <= SizeScale
            THEN [trk EXCEPT ![side] = PopAt(@, price, 1)]
            ELSE [trk EXCEPT ![side][price][1].remaining_size = left]

\* an update_fill that never drops a filled order
OrderTracker_update_fill_keeps_filled(trk, side, price, filled_size, order_id) ==
    LET actual_price == OrderTracker_find_by_order_id(trk, side, order_id)
    IN IF actual_price = 0 THEN trk
       ELSE LET i == IndexOf(trk[side][actual_price], order_id)
            IN [trk EXCEPT ![side][actual_price][i].remaining_size = @ - filled_size]

\* price: the reported fill price, used only for the log line
OrderTracker_update_fill(trk, side, price, filled_size, order_id) ==
    LET actual_price == OrderTracker_find_by_order_id(trk, side, order_id)
    IN IF actual_price = 0 THEN trk
       ELSE LET i == IndexOf(trk[side][actual_price], order_id)
                left == trk[side][actual_price][i].remaining_size - filled_size
            IN \* remaining_size <= 0.001
               IF left * 1000 <= SizeScale
               THEN [trk EXCEPT ![side] = PopAt(@, actual_price, i)]
               ELSE [trk EXCEPT ![side][actual_price][i].remaining_size = left]

OrderTracker_clear_all(trk) == EmptyTracker

\* get_all_orders(side), as records that carry their side
OrderTracker_get_all_orders(trk, side) ==
    {[order_id |-> trk[side][p][i].order_id, side |-> side, price |-> p,
      remaining_size |-> trk[side][p][i].remaining_size,
      original_size |-> trk[side][p][i].original_size] :
        <<p, i>> \in {<<q, j>> \in (DOMAIN trk[side]) \X (1..MaxTrackerOrders) :
                         j <= Len(trk[side][q])}}

\* every order the tracker holds: the tracker as the rest of the module
\* keeps it
AllOrders(trk) == UNION {OrderTracker_get_all_orders(trk, side) : side \in Sides}

TrackerInit ==
    /\ market_state = [market_id |-> 1,
                       best_ask |-> [yes |-> 0, no |-> 0],
                       sync |-> [yes |-> TRUE, no |-> TRUE]]
    /\ position_states = [w \in 1..MaxWindows |-> PositionState]
    /\ trader = [position |-> 1, trading_enabled |-> FALSE, should_stop |-> FALSE,
                 markets_seen |-> 1, trading_started |-> FALSE,
                 phase |-> "running", startup_cancel |-> TRUE]
    /\ executor = [position |-> 1, market_id |-> 1]
    /\ manager = [initialized |-> FALSE, fill_lock |-> FALSE]
    /\ tracker = EmptyTracker
    /\ tasks = << >>
    /\ sync_task = 0
    /\ venue = [orders |-> {}, next_id |-> 1, snapshots_due |-> {}]
    /\ counters = NoCounters
    /\ last_rec = NoRecs
    /\ hist = [profit_lock |-> FALSE, breaker |-> FALSE]
    /\ scheduler = NoScheduler
    /\ socket = NoSocket
    /\ io = NoIO

\* tracker.add(side, price, order_id, size) with the id of a new order
TrackerAdd ==
    \E side \in Sides, price \in TrackerPrices, size \in TrackerSizes :
        /\ venue.next_id <= MaxTrackerOrders
        /\ tracker' = OrderTracker_add(tracker, side, price, venue.next_id, size)
        /\ venue' = [venue EXCEPT !.next_id = @ + 1]
        /\ io' = [NoIO EXCEPT !.op = "add", !.side = side, !.price = price,
                              !.order_id = venue.next_id, !.size = size]
        /\ UNCHANGED <<socket, scheduler, market_state, position_states, trader, executor, manager,
                       tasks, sync_task, counters, last_rec, hist>>

\* tracker.update_fill(side, price, filled_size, order_id), for any id the
\* venue has issued
TrackerUpdateFill ==
    \E side \in Sides, price \in TrackerPrices, filled_size \in TrackerFillSizes,
       order_id \in 1..MaxTrackerOrders :
        LET at == OrderTracker_find_by_order_id(tracker, side, order_id)
        IN /\ order_id < venue.next_id
           /\ tracker' = OrderTracker_update_fill(tracker, side, price, filled_size, order_id)
           /\ io' = [NoIO EXCEPT
                       !.op = "update_fill", !.side = side, !.price = price,
                       !.order_id = order_id, !.size = filled_size,
                       !.found = at # 0,
                       !.remaining_before =
                           IF at = 0 THEN 0
                           ELSE tracker[side][at][IndexOf(tracker[side][at], order_id)]
                                    .remaining_size]
           /\ UNCHANGED <<socket, scheduler, market_state, position_states, trader, executor, manager,
                          tasks, sync_task, venue, counters, last_rec, hist>>

\* tracker.remove_by_ids(side, order_ids)
TrackerRemoveByIds ==
    \E side \in Sides, order_ids \in SUBSET (1..MaxTrackerOrders) :
        /\ order_ids # {}
        /\ \A id \in order_ids : id < venue.next_id
        /\ tracker' = OrderTracker_remove_by_ids(tracker, side, order_ids)
        /\ io' = [NoIO EXCEPT
                    !.op = "remove_by_ids", !.side = side, !.cancel_req = order_ids,
                    !.found = \E id \in order_ids :
                                 OrderTracker_find_by_order_id(tracker, side, id) # 0]
        /\ UNCHANGED <<socket, scheduler, market_state, position_states, trader, executor, manager,
                       tasks, sync_task, venue, counters, last_rec, hist>>

\* tracker.clear_all()
TrackerClearAll ==
    /\ tracker' = OrderTracker_clear_all(tracker)
    /\ io' = [NoIO EXCEPT !.op = "clear_all"]
    /\ UNCHANGED <<socket, scheduler, market_state, position_states, trader, executor, manager,
                   tasks, sync_task, venue, counters, last_rec, hist>>

TrackerNext ==
    \/ TrackerAdd
    \/ TrackerUpdateFill
    \/ TrackerRemoveByIds
    \/ TrackerClearAll

TrackerSpec == TrackerInit /\ [][TrackerNext]_vars

\* ------------------------------------------------------------------------
\* The place flush of _reconcile_orders on its own: a batch goes to the
\* venue, each order gets its own answer, and what _place_batch returns is
\* added to the tracker
\* ------------------------------------------------------------------------
\* the (price, size) pairs a batch is made of
PlaceOrders == {[price |-> 100, size |-> 1000], [price |-> 110, size |-> 1000]}

\* the answers to a batch: an exception, nothing, or one answer per order
BatchResponses(places) ==
    {[kind |-> k, answers |-> << >>] : k \in {"exception", "no_response"}}
    \cup {[kind |-> "list", answers |-> a] :
             a \in [{p.price : p \in places} -> OrderResponses]}

PlaceInit ==
    /\ market_state = [market_id |-> 1,
                       best_ask |-> [yes |-> 0, no |-> 0],
                       sync |-> [yes |-> TRUE, no |-> TRUE]]
    /\ position_states = [w \in 1..MaxWindows |-> PositionState]
    /\ trader = [position |-> 1, trading_enabled |-> FALSE, should_stop |-> FALSE,
                 markets_seen |-> 1, trading_started |-> FALSE,
                 phase |-> "running", startup_cancel |-> TRUE]
    /\ executor = [position |-> 1, market_id |-> 1]
    /\ manager = [initialized |-> FALSE, fill_lock |-> FALSE]
    /\ tracker = {}
    /\ tasks = << >>
    /\ sync_task = 0
    /\ venue = [orders |-> {}, next_id |-> 1, snapshots_due |-> {}]
    /\ counters = NoCounters
    /\ last_rec = NoRecs
    /\ hist = [profit_lock |-> FALSE, breaker |-> FALSE]
    /\ scheduler = NoScheduler
    /\ socket = NoSocket
    /\ io = NoIO

\* "if to_place:" of _reconcile_orders: place_orders_batch, then tracker.add
\* for each tuple returned
PlaceFlush ==
    \E side \in Sides, places \in SUBSET PlaceOrders :
      \E response \in BatchResponses(places) :
        LET placed == _place_batch(places, side, executor.market_id,
                                   venue.next_id, response)
            \* the venue keeps the orders it answered with an orderID
            resting == placed
        IN /\ places # {}
           /\ venue.next_id + Cardinality(resting) <= MaxTrackerOrders + 1
           /\ tracker' = add_placed(tracker, placed)
           /\ venue' = [venue EXCEPT !.orders = @ \cup resting,
                                     !.next_id = @ + Cardinality(resting)]
           /\ io' = [NoIO EXCEPT !.op = "place", !.side = side,
                                 !.place_req = places,
                                 !.placed = {o.order_id : o \in placed},
                                 !.response = response]
           /\ UNCHANGED <<socket, scheduler, market_state, position_states, trader, executor, manager,
                          tasks, sync_task, counters, last_rec, hist>>

PlaceNext == PlaceFlush

PlaceSpec == PlaceInit /\ [][PlaceNext]_vars

\* ------------------------------------------------------------------------
\* The user channel (ingestion/user_ws.py) on its own: the venue reports each
\* trade with its status as the trade moves on, the handler turns a message
\* into at most one FillEvent, and the on_fill callback books it.  In
\* UserWsSpec venue has a field trades (per trade: what kind it is and the
\* last status reported) and hist has the fields trade_events (the messages
\* in arrival order) and fills (the FillEvents handed to on_fill, in order).
\* ------------------------------------------------------------------------
\* what our part in a trade is: our order crossed the book; one of our
\* resting orders was matched (listed after another wallet's order); two of
\* our resting orders were matched by the same taker; a trade listed under
\* MAKER without an order of our wallet; a message without trader_side
TradeKinds == {"taker", "maker", "maker_two", "maker_others", "no_side"}

\* the statuses the venue reports after s
NextStatuses(s) ==
    IF s = "none" THEN {"MATCHED"}
    ELSE IF s = "MATCHED" THEN {"MINED", "RETRYING"}
    ELSE IF s = "RETRYING" THEN {"MINED", "FAILED"}
    ELSE IF s = "MINED" THEN {"CONFIRMED"}
    ELSE {}

MakerOrder(ours, order_id, matched_amount, price) ==
    [ours |-> ours, order_id |-> order_id, matched_amount |-> matched_amount,
     price |-> price, asset_id |-> "yes"]

\* the trade message of the user channel; ours: maker_address is our wallet;
\* order ids 1 and 2 are ours, 9 is another wallet's
TradeMessage(trade, kind, status) ==
    [event_type |-> "trade", id |-> trade, status |-> status,
     trader_side |-> IF kind = "taker" THEN "TAKER"
                     ELSE IF kind = "no_side" THEN "" ELSE "MAKER",
     price |-> 120, size |-> 500, asset_id |-> "no", taker_order_id |-> trade,
     maker_orders |->
        IF kind = "maker"
        THEN << MakerOrder(FALSE, 9, 700, 110), MakerOrder(TRUE, trade, 500, 100) >>
        ELSE IF kind = "maker_two"
        THEN << MakerOrder(TRUE, trade, 500, 110), MakerOrder(TRUE, trade + MaxTrades, 300, 100) >>
        ELSE << MakerOrder(FALSE, 9, 700, 110) >>]

FillEvent(order_id, asset_id, price, size, is_maker) ==
    [order_id |-> order_id, asset_id |-> asset_id, side |-> "BUY", price |-> price,
     size |-> size, status |-> "MATCHED", is_maker |-> is_maker]

\* a handler that takes every status for a fill
_handle_trade_any_status(data) ==
    IF data.trader_side = "TAKER"
    THEN << FillEvent(data.taker_order_id, data.asset_id, data.price, data.size, FALSE) >>
    ELSE IF data.trader_side = "MAKER"
    THEN LET mine == {i \in 1..Len(data.maker_orders) : data.maker_orders[i].ours}
         IN IF mine = {} THEN << >>
            ELSE LET first == CHOOSE i \in mine : \A j \in mine : i <= j
                     maker == data.maker_orders[first]
                 IN << FillEvent(maker.order_id, maker.asset_id, maker.price,
                                 maker.matched_amount, TRUE) >>
    ELSE << >>

\* UserWebSocket._handle_trade: the FillEvents passed to on_fill, none or one
_handle_trade(data) ==
    IF data.status # "MATCHED" THEN << >>
    ELSE IF data.trader_side = "TAKER"
    THEN << FillEvent(data.taker_order_id, data.asset_id, data.price, data.size, FALSE) >>
    ELSE IF data.trader_side = "MAKER"
    THEN LET mine == {i \in 1..Len(data.maker_orders) : data.maker_orders[i].ours}
         IN IF mine = {} THEN << >>
            ELSE LET first == CHOOSE i \in mine : \A j \in mine : i <= j
                     maker == data.maker_orders[first]
                 IN << FillEvent(maker.order_id, maker.asset_id, maker.price,
                                 maker.matched_amount, TRUE) >>
    ELSE << >>

UserWsInit ==
    /\ market_state = [market_id |-> 1,
                       best_ask |-> [yes |-> 0, no |-> 0],
                       sync |-> [yes |-> TRUE, no |-> TRUE]]
    /\ position_states = [w \in 1..MaxWindows |-> PositionState]
    /\ trader = [position |-> 1, trading_enabled |-> FALSE, should_stop |-> FALSE,
                 markets_seen |-> 1, trading_started |-> FALSE,
                 phase |-> "running", startup_cancel |-> TRUE]
    /\ executor = [position |-> 1, market_id |-> 1]
    /\ manager = [initialized |-> FALSE, fill_lock |-> FALSE]
    /\ tracker = {}
    /\ tasks = << >>
    /\ sync_task = 0
    /\ venue = [orders |-> {}, next_id |-> 1, snapshots_due |-> {},
                trades |-> [t \in 1..MaxTrades |-> [kind |-> "none", status |-> "none"]]]
    /\ counters = NoCounters
    /\ last_rec = NoRecs
    /\ hist = [profit_lock |-> FALSE, breaker |-> FALSE,
               trade_events |-> << >>, fills |-> << >>]
    /\ scheduler = NoScheduler
    /\ socket = NoSocket
    /\ io = NoIO

\* _process_message for a trade message: _handle_trade, and for the
\* FillEvent it builds LiveTrader._on_ws_fill (trading is not enabled, so the
\* callback books the fill and creates no task)
UserTrade ==
    \E trade \in 1..MaxTrades, kind \in TradeKinds :
      \E status \in NextStatuses(venue.trades[trade].status) :
        LET data == TradeMessage(trade, kind, status)
            fills == _handle_trade(data)
        IN /\ IF status = "MATCHED"
              THEN \A t \in 1..(trade - 1) : venue.trades[t].status # "none"
              ELSE kind = venue.trades[trade].kind
           /\ venue' = [venue EXCEPT !.trades[trade] = [kind |-> kind, status |-> status]]
           /\ hist' = [hist EXCEPT
                         !.trade_events = Append(@, [trade |-> trade, kind |-> kind,
                                                     status |-> status]),
                         !.fills = @ \o [i \in 1..Len(fills) |->
                                            [trade |-> trade, fill |-> fills[i]]]]
           /\ position_states' =
                 IF fills = << >> THEN position_states
                 ELSE [position_states EXCEPT ![executor.position] =
                          handle_ws_fill(@, TRUE, fills[1].asset_id,
                                         fills[1].price, fills[1].size)]
           /\ io' = [NoIO EXCEPT !.op = "trade", !.event = status,
                                 !.callback = fills # << >>]
           /\ UNCHANGED <<socket, scheduler, market_state, trader, executor, manager, tracker, tasks,
                          sync_task, counters, last_rec>>

\* _process_message for an order update or a heartbeat: logged or ignored
UserOtherMessage ==
    \E event_type \in {"order", "ping"} :
        /\ io' = [NoIO EXCEPT !.op = "user_message", !.event = event_type]
        /\ UNCHANGED <<socket, scheduler, market_state, position_states, trader, executor, manager,
                       tracker, tasks, sync_task, venue, counters, last_rec, hist>>

UserWsNext == UserTrade \/ UserOtherMessage

UserWsSpec == UserWsInit /\ [][UserWsNext]_vars

\* ------------------------------------------------------------------------
\* The window scheduler against the clock
\* (IngestionOrchestrator._switch_markets_periodically).  scheduler.now is
\* int(time.time()), counted from the start of the first window;
\* current_slug is the timestamp at the end of orchestrator.current_slug.
\* ------------------------------------------------------------------------
\* how far the clock moves between two steps of the program
ClockSteps == {SAME_MARKET_SLEEP, WINDOW_SECONDS}

floor_to_15min_epoch(ts) == ts - (ts % WINDOW_SECONDS)

\* the market id of the window that starts at ts
window_of(ts) == (ts \div WINDOW_SECONDS) + 1

\* a scheduler that aims past the boundary
next_start_late(current_start) == current_start + WINDOW_SECONDS + ERROR_SLEEP

\* next_start = current_start + 900
next_start_of(current_start) == current_start + WINDOW_SECONDS

\* time passes
SchedTick ==
    \E step \in ClockSteps :
        /\ Running
        /\ scheduler.now + step < MaxWindows * WINDOW_SECONDS
        /\ scheduler' = [scheduler EXCEPT !.now = @ + step]
        /\ io' = [NoIO EXCEPT !.op = "tick"]
        /\ UNCHANGED <<socket, market_state, position_states, trader, executor, manager,
                       tracker, tasks, sync_task, venue, counters, last_rec, hist>>

\* the top of the loop body: read the slug and the clock; past next_start
\* go on at once to get_current_btc_15m_market, which takes the window of
\* the clock as it is now, else sleep for next_start - now
SchedEvaluate ==
    LET next_start == next_start_of(scheduler.current_slug)
        now == scheduler.now
    IN /\ Running
       /\ scheduler.pc = "evaluate"
       /\ scheduler' =
             IF now >= next_start
             THEN [scheduler EXCEPT !.pc = "fetching", !.sleep = "none",
                                    !.target = floor_to_15min_epoch(now),
                                    !.slept = FALSE]
             ELSE [scheduler EXCEPT !.pc = "sleeping", !.sleep = "until_next_start",
                                    !.wake = now + (next_start - now)]
       /\ io' = [NoIO EXCEPT !.op = "evaluate"]
       /\ UNCHANGED <<socket, market_state, position_states, trader, executor, manager,
                      tracker, tasks, sync_task, venue, counters, last_rec, hist>>

\* asyncio.sleep returns, at its time or later: after the sleep until
\* next_start the fetch begins, after the other sleeps the loop starts over
SchedWake ==
    /\ Running
    /\ scheduler.pc = "sleeping"
    /\ scheduler.now >= scheduler.wake
    /\ scheduler' =
          IF scheduler.sleep = "until_next_start"
          THEN [scheduler EXCEPT !.pc = "fetching", !.sleep = "none",
                                 !.target = floor_to_15min_epoch(scheduler.now),
                                 !.slept = TRUE]
          ELSE [scheduler EXCEPT !.pc = "evaluate", !.sleep = "none"]
    /\ io' = [NoIO EXCEPT !.op = "wake"]
    /\ UNCHANGED <<socket, market_state, position_states, trader, executor, manager,
                   tracker, tasks, sync_task, venue, counters, last_rec, hist>>

\* the fetch returns: an exception (the market is not listed, the request
\* failed) sends the loop to sleep ERROR_SLEEP; the market it already has,
\* to sleep SAME_MARKET_SLEEP; a new market is switched to
SchedFetched ==
    \E found \in BOOLEAN :
        LET new_id == window_of(scheduler.target)
        IN /\ Running
           /\ scheduler.pc = "fetching"
           /\ IF ~found
              THEN /\ counters.failures < MaxVenueFailures
                   /\ Incidents(counters) < MaxIncidents
                   /\ counters' = [counters EXCEPT !.failures = @ + 1]
                   /\ scheduler' = [scheduler EXCEPT
                                      !.pc = "sleeping", !.sleep = "retry",
                                      !.wake = scheduler.now + ERROR_SLEEP]
                   /\ io' = [NoIO EXCEPT !.op = "fetch_failed"]
                   /\ UNCHANGED <<socket, market_state, position_states, trader, executor,
                                  manager, tracker, tasks, sync_task, venue,
                                  last_rec, hist>>
              ELSE IF new_id = market_state.market_id
              THEN /\ scheduler' = [scheduler EXCEPT
                                      !.current_slug = scheduler.target,
                                      !.pc = "sleeping", !.sleep = "retry",
                                      !.wake = scheduler.now + SAME_MARKET_SLEEP]
                   /\ io' = [NoIO EXCEPT !.op = "same_market"]
                   /\ UNCHANGED <<socket, market_state, position_states, trader, executor,
                                  manager, tracker, tasks, sync_task, venue,
                                  counters, last_rec, hist>>
              ELSE roll_to(new_id, FALSE,
                           [scheduler EXCEPT !.current_slug = scheduler.target,
                                             !.pc = "evaluate", !.sleep = "none"])

SchedNext ==
    \/ start
    \/ SchedTick
    \/ SchedEvaluate
    \/ SchedWake
    \/ SchedFetched
    \/ on_market_switch

SchedSpec == Init /\ [][SchedNext]_vars

\* ------------------------------------------------------------------------
\* The market-data socket's connection loop on its own
\* (PolymarketWebSocket.connect, _handle_messages, disconnect).  socket.pc is
\* the await connect() stands at: "connecting" (websockets.connect),
\* "subscribing" (ws.send of the subscribe frame), "handling" (the async for
\* of _handle_messages), "backoff" (asyncio.sleep(reconnect_delay)), and
\* "returned" once the while loop has ended.  The supervisor is in the window
\* in progress at start-up, so the book messages lead to no order.
\* ------------------------------------------------------------------------
\* how a connection ends: "ok" is a close with code 1000 or 1001, on which
\* the async for over the connection ends without an exception; "error" is
\* any other close (ConnectionClosedError) or an exception of the iteration
CloseKinds == {"ok", "error"}

\* min(self.reconnect_delay * 2, self.max_reconnect_delay)
next_reconnect_delay(delay) ==
    IF delay * 2 < MAX_RECONNECT_DELAY THEN delay * 2 ELSE MAX_RECONNECT_DELAY

\* orchestrator.start has called connect(): running is False, so the loop
\* is entered and websockets.connect awaited
SocketInit ==
    /\ market_state = [market_id |-> 1,
                       best_ask |-> [yes |-> 0, no |-> 0],
                       sync |-> [yes |-> FALSE, no |-> FALSE]]
    /\ position_states = [w \in 1..MaxWindows |-> PositionState]
    /\ trader = [position |-> 1, trading_enabled |-> FALSE, should_stop |-> FALSE,
                 markets_seen |-> 1, trading_started |-> FALSE,
                 phase |-> "running", startup_cancel |-> TRUE]
    /\ executor = [position |-> 1, market_id |-> 1]
    /\ manager = [initialized |-> FALSE, fill_lock |-> FALSE]
    /\ tracker = {}
    /\ tasks = << >>
    /\ sync_task = 0
    /\ venue = [orders |-> {}, next_id |-> 1, snapshots_due |-> {}]
    /\ counters = NoCounters
    /\ last_rec = NoRecs
    /\ hist = [profit_lock |-> FALSE, breaker |-> FALSE]
    /\ scheduler = NoScheduler
    /\ socket = [NoSocket EXCEPT !.pc = "connecting"]
    /\ io = NoIO

\* the except branches of connect(): running = False, then the sleep
connect_failed(sock) == [sock EXCEPT !.running = FALSE, !.pc = "backoff"]

\* "while not self.running": where connect() goes when the loop test is
\* reached with the socket sock
loop_test(sock) ==
    IF sock.running THEN [sock EXCEPT !.pc = "returned"]
    ELSE [sock EXCEPT !.pc = "connecting"]

\* await websockets.connect(...) completes, with a connection or an exception
SockConnect ==
    \E ok \in BOOLEAN :
        /\ socket.pc = "connecting"
        /\ ~ok => counters.failures < MaxConnectFailures
        /\ counters' = [counters EXCEPT !.failures = IF ok THEN @ ELSE @ + 1]
        /\ socket' = IF ok THEN [socket EXCEPT !.ws = "open", !.pc = "subscribing"]
                     ELSE connect_failed(socket)
        /\ io' = [NoIO EXCEPT !.op = IF ok THEN "connect" ELSE "connect_failed"]
        /\ UNCHANGED <<scheduler, market_state, position_states, trader, executor, manager,
                       tracker, tasks, sync_task, venue, last_rec, hist>>

\* await self.ws.send(subscribe_message): sent (running = True, the delay is
\* reset, _handle_messages begins and the venue owes both books), or the
\* connection is closed under it (ConnectionClosed)
SockSubscribe ==
    \E ok \in BOOLEAN :
        /\ socket.pc = "subscribing"
        /\ ok => socket.ws = "open"
        /\ (~ok /\ socket.ws = "open") => counters.failures < MaxConnectFailures
        /\ counters' = [counters EXCEPT
                          !.failures = IF ok \/ socket.ws # "open" THEN @ ELSE @ + 1]
        /\ socket' = IF ok
                     THEN [socket EXCEPT !.running = TRUE, !.reconnect_delay = 1,
                                         !.pc = "handling"]
                     ELSE [connect_failed(socket) EXCEPT !.ws = "closed"]
        /\ venue' = IF ok THEN [venue EXCEPT !.snapshots_due = Sides] ELSE venue
        /\ io' = [NoIO EXCEPT !.op = IF ok THEN "subscribe" ELSE "subscribe_failed",
                              !.window = IF ok THEN market_state.market_id ELSE 0]
        /\ UNCHANGED <<scheduler, market_state, position_states, trader, executor, manager,
                       tracker, tasks, sync_task, last_rec, hist>>

\* asyncio.sleep(self.reconnect_delay) returns; the delay is doubled up to
\* max_reconnect_delay and the loop test is reached with running False
SockBackoffWake ==
    /\ socket.pc = "backoff"
    /\ socket' = loop_test([socket EXCEPT
                              !.reconnect_delay = next_reconnect_delay(@)])
    /\ io' = [NoIO EXCEPT !.op = "backoff", !.size = socket.reconnect_delay]
    /\ UNCHANGED <<scheduler, market_state, position_states, trader, executor, manager,
                   tracker, tasks, sync_task, venue, counters, last_rec, hist>>

\* the connection ends under the async for of _handle_messages: after a
\* normal close the iteration just ends and running stays True; an error is
\* caught, running is set False; _handle_messages returns to the loop test
SockClose ==
    \E kind \in CloseKinds :
        /\ Receiving
        /\ counters.drops < MaxCloses
        /\ counters' = [counters EXCEPT !.drops = @ + 1]
        /\ socket' = loop_test([socket EXCEPT
                                  !.ws = "closed",
                                  !.running = IF kind = "ok" THEN @ ELSE FALSE])
        /\ io' = [NoIO EXCEPT !.op = "close", !.event = kind]
        /\ UNCHANGED <<scheduler, market_state, position_states, trader, executor, manager,
                       tracker, tasks, sync_task, venue, last_rec, hist>>

\* disconnect(), as orchestrator.stop calls it: running = False, and the
\* connection, if there is one, is closed; a loop standing in _handle_messages
\* sees its iteration end and reaches the loop test
SockDisconnect ==
    /\ ~socket.stopped
    /\ socket.pc # "idle"
    /\ LET closed == [socket EXCEPT !.running = FALSE, !.stopped = TRUE,
                                    !.ws = IF @ = "none" THEN "none" ELSE "closed"]
       IN socket' = IF socket.pc = "handling" THEN loop_test(closed) ELSE closed
    /\ io' = [NoIO EXCEPT !.op = "disconnect"]
    /\ UNCHANGED <<scheduler, market_state, position_states, trader, executor, manager,
                   tracker, tasks, sync_task, venue, counters, last_rec, hist>>

SocketNext ==
    \/ SockConnect
    \/ SockSubscribe
    \/ BookSnapshot
    \/ SockClose
    \/ SockBackoffWake
    \/ SockDisconnect

SocketSpec == SocketInit /\ [][SocketNext]_vars

\* the event loop runs every coroutine that can go on: an awaited connect, a
\* send and a sleep all complete
SocketLiveSpec ==
    /\ SocketSpec
    /\ WF_vars(SockConnect)
    /\ WF_vars(SockSubscribe)
    /\ WF_vars(SockBackoffWake)

\* ------------------------------------------------------------------------
\* The diff engine on its own: _reconcile_orders run for a side on every
\* tracker, ledger and book of the sets below.  The tracked orders rest on
\* the venue under the same ids.
\* ------------------------------------------------------------------------
\* prices of the tracked YES orders; with the asks below the top rung is 120
\* or 140, so 130 and 140 can lie above the ladder
DiffPrices == {100, 110, 120, 130}

\* the orders that may rest at a price, as their remaining sizes
\* (hundredths): none, one order, or two orders
DiffLevels(price) ==
    IF price = 100 THEN {<< >>, <<300>>, <<1000>>}
    ELSE IF price = 110 THEN {<< >>, <<300>>, <<600>>, <<900>>}
    ELSE IF price = 120 THEN {<< >>, <<600>>, <<1000>>, <<1000, 600>>}
    ELSE {<< >>, <<1000>>}

\* a choice of the orders at every price
DiffChoices ==
    {levels \in [DiffPrices -> UNION {DiffLevels(price) : price \in DiffPrices}] :
        \A price \in DiffPrices : levels[price] \in DiffLevels(price)}

\* the best ask of the YES token; the NO ask is 130
DiffAsks == {130, 150}

\* ledgers by the net YES position they give: flat (target 10), long 30
\* (target 6), long 50 (target 3.33, below the minimum order size), long 75
\* (target 0), short 75 (target 20); shares were bought at 0.10
DiffLedgers ==
    {[Qy |-> qy, Qn |-> qn, Cy |-> qy * 100, Cn |-> qn * 100] :
        <<qy, qn>> \in {<<0, 0>>, <<3000, 0>>, <<5000, 0>>, <<7500, 0>>, <<0, 7500>>}}

\* the id of the j-th order at a price
DiffOrderId(price, j) == 2 * ((price - MIN_PRICE) \div TICK_SIZE) + j

\* the YES orders of a choice of levels, and one NO order when with_no
DiffTracker(levels, with_no) ==
    {StandingOrder("yes", q[1], DiffOrderId(q[1], q[2]), levels[q[1]][q[2]]) :
        q \in {r \in DiffPrices \X {1, 2} : r[2] <= Len(levels[r[1]])}}
    \cup (IF with_no THEN {StandingOrder("no", 110, 2 * Cardinality(DiffPrices) + 1, 1000)}
          ELSE {})

DiffInit ==
    /\ \E ask_yes \in DiffAsks :
          market_state = [market_id |-> 1,
                          best_ask |-> [yes |-> ask_yes, no |-> 130],
                          sync |-> [yes |-> TRUE, no |-> TRUE]]
    /\ \E pos \in DiffLedgers :
          position_states = [w \in 1..MaxWindows |-> IF w = 1 THEN pos ELSE PositionState]
    /\ trader = [position |-> 1, trading_enabled |-> TRUE, should_stop |-> FALSE,
                 markets_seen |-> 2, trading_started |-> TRUE,
                 phase |-> "running", startup_cancel |-> TRUE]
    /\ executor = [position |-> 1, market_id |-> 1]
    /\ manager = [initialized |-> TRUE, fill_lock |-> FALSE]
    /\ \E levels \in DiffChoices, with_no \in BOOLEAN :
          /\ tracker = DiffTracker(levels, with_no)
          /\ venue = [orders |-> {[order_id |-> o.order_id, market |-> 1, side |-> o.side,
                                   price |-> o.price, size |-> o.remaining_size] :
                                     o \in DiffTracker(levels, with_no)},
                      next_id |-> 2 * Cardinality(DiffPrices) + 2,
                      snapshots_due |-> {}]
    /\ tasks = << >>
    /\ sync_task = 0
    /\ counters = NoCounters
    /\ last_rec = NoRecs
    /\ hist = [profit_lock |-> FALSE, breaker |-> FALSE]
    /\ scheduler = NoScheduler
    /\ socket = Connected
    /\ io = NoIO

\* one call of _reconcile_orders(side, market_state, position_state)
DiffReconcile ==
    \E side \in Sides :
        /\ _reconcile_orders(tracker, last_rec, side, market_state.best_ask,
                             position_states[trader.position],
                             [NoIO EXCEPT !.caller = "on_price_change", !.window = 1])
        /\ UNCHANGED <<socket, scheduler, market_state, position_states, trader, executor,
                       manager, tasks, sync_task, hist>>

DiffNext == DiffReconcile

DiffSpec == DiffInit /\ [][DiffNext]_vars

\* ------------------------------------------------------------------------
\* Properties
\* ------------------------------------------------------------------------
\* ------------------------------------------------------------------------
\* Inventory under a run of fills: a trading window in which takers sell YES
\* into our bids while the NO ask rises.  The venue matches resting orders on
\* its own clock; the trade messages of the user channel and the price
\* changes of the market channel arrive on two sockets, in no fixed order
\* between them.  In ExposureSpec venue has a field matched: the trades the
\* venue has matched and the user channel has not yet delivered.  No
\* position sync answers and the window does not roll.
\* ------------------------------------------------------------------------
ExposureBook == [yes |-> 500, no |-> 520]

\* the NO ask after it has risen
ExposureAsks == {580}

\* the trader right after the first synced update of its first trading
\* window: _on_market_update has created the initialize task and the
\* on_price_change task
ExposureInit ==
    /\ market_state = [market_id |-> 2, best_ask |-> ExposureBook,
                       sync |-> [yes |-> TRUE, no |-> TRUE]]
    /\ position_states = [w \in 1..MaxWindows |-> PositionState]
    /\ trader = [position |-> 2, trading_enabled |-> TRUE, should_stop |-> FALSE,
                 markets_seen |-> 2, trading_started |-> TRUE,
                 phase |-> "running", startup_cancel |-> TRUE]
    /\ executor = [position |-> 2, market_id |-> 2]
    /\ manager = [initialized |-> FALSE, fill_lock |-> FALSE]
    /\ tracker = {}
    /\ tasks = << [Task("initialize") EXCEPT !.book = ExposureBook, !.pos = 2],
                  [Task("on_price_change") EXCEPT !.book = ExposureBook, !.pos = 2] >>
    /\ sync_task = 0
    /\ venue = [orders |-> {}, next_id |-> 1, snapshots_due |-> {}, matched |-> << >>]
    \* the update that led here is counted; every venue call of these runs
    \* succeeds
    /\ counters = [NoCounters EXCEPT !.book = 1, !.failures = MaxVenueFailures]
    /\ last_rec = NoRecs
    /\ hist = [profit_lock |-> FALSE, breaker |-> FALSE]
    /\ scheduler = NoScheduler
    /\ socket = Connected
    /\ io = NoIO

\* a taker sells YES: the venue matches the best-priced of our resting YES
\* orders in full; the trade message is on its way
VenueMatches ==
    \E o \in venue.orders :
        /\ o.side = "yes" /\ o.market = executor.market_id
        /\ IsTopOfBook(o)
        /\ Running /\ tasks = << >>
        /\ Len(venue.matched) < MaxPendingTrades
        /\ venue' = [venue EXCEPT !.orders = @ \ {o}, !.matched = Append(@, o)]
        /\ io' = [NoIO EXCEPT !.op = "match", !.side = o.side, !.order_id = o.order_id,
                              !.price = o.price, !.size = o.size]
        /\ UNCHANGED <<socket, scheduler, market_state, position_states, trader, executor,
                       manager, tracker, tasks, sync_task, counters, last_rec, hist>>

\* the user channel delivers the oldest MATCHED trade: LiveTrader._on_ws_fill
\* books the fill and creates the on_fill task
WsFillDelivered ==
    /\ venue.matched # << >>
    /\ Running /\ tasks = << >>
    /\ LET o == Head(venue.matched)
           fill_task == [Task("on_fill") EXCEPT
                           !.pos = trader.position, !.side = o.side, !.size = o.size,
                           !.order_id = o.order_id]
       IN /\ venue' = [venue EXCEPT !.matched = Tail(@)]
          /\ position_states' =
                [position_states EXCEPT ![executor.position] =
                    handle_ws_fill(@, TRUE, o.side, o.price, o.size)]
          /\ tasks' = Append(tasks, fill_task)
          /\ io' = [NoIO EXCEPT !.op = "fill", !.side = o.side,
                                !.order_id = o.order_id, !.price = o.price,
                                !.size = o.size]
    /\ UNCHANGED <<socket, scheduler, market_state, trader, executor, manager,
                   tracker, sync_task, counters, last_rec, hist>>

\* _handle_price_change_message for the NO token, less than
\* REFRESH_INTERVAL_MS after the last periodic check; max_seconds is not set
ExposurePriceChange ==
    \E ask \in ExposureAsks :
        /\ Running /\ tasks = << >> /\ Receiving
        /\ on_state_update([market_state EXCEPT !.best_ask["no"] = ask], venue,
                           "price_change", FALSE, FALSE, TRUE, FALSE)

ExposureNext ==
    \/ initialize
    \/ on_price_change
    \/ on_fill
    \/ VenueMatches
    \/ WsFillDelivered
    \/ ExposurePriceChange

ExposureSpec == ExposureInit /\ [][ExposureNext]_vars

TrackerIds == {o.order_id : o \in tracker}

VenueIds(market) == {o.order_id : o \in {x \in venue.orders : x.market = market}}

OnFillInBody == {i \in 1..Len(tasks) : tasks[i].kind = "on_fill" /\ tasks[i].pc = 2}

\* min_pnl = min(Qy, Qn) * 1000 - (Cy + Cn), in ticks * hundredths
min_pnl(pos) ==
    (IF pos.Qy <= pos.Qn THEN pos.Qy ELSE pos.Qn) * ONE_DOLLAR_TICKS - (pos.Cy + pos.Cn)

\* C1: after the reconciler's cancel flush, every id whose cancel the venue
\* did not confirm (reported not canceled, or the call failed) is still in
\* the tracker, unless the venue says the order no longer exists.
C1_UnconfirmedCancelStaysTracked ==
    io.op = "reconcile" =>
        \A id \in io.cancel_req \ (io.canceled \cup io.gone) : id \in TrackerIds

\* C2: when on_market_switch runs for a window roll, its market-wide cancel
\* names the expiring window's market, and the tracker is empty afterwards.
C2_RollCancelsExpiringWindow ==
    io.op = "market_switch" =>
        /\ io.market_cancel = io.expiring
        /\ tracker = {}

\* C3: once the profit lock has engaged in a window, no placement call
\* reaches the venue until the next roll.
C3_NoPlacementAfterProfitLock ==
    hist.profit_lock => io.place_req = {}

\* C4: once the circuit breaker has tripped in a window, no placement call
\* reaches the venue for the rest of that window.
C4_NoPlacementAfterBreaker ==
    hist.breaker => io.place_req = {}

\* C5: a periodic check that gets past the circuit breaker engages the
\* profit lock exactly when min(Qy, Qn) * 1000 - (Cy + Cn) is at least
\* PROFIT_LOCK_MIN dollars.
C5_ProfitLockIffMinPnl ==
    (io.op = "update" /\ io.periodic /\ ~io.breaker) =>
        (io.lock <=> min_pnl(position_states[trader.position])
                        >= PROFIT_LOCK_MIN * ONE_DOLLAR_TICKS * SizeScale)

\* C6: the price _calc_final_price returns is at most each of the three
\* gates and lies in [MIN_PRICE, 990].
C6_FinalPriceWithinGates ==
    io.op = "gate" =>
        LET pos == position_states[trader.position]
            book == market_state.best_ask
            p_final == Frac(io.p_final, 1)
        IN /\ FracLeq(p_final, _calc_p_acct(io.side, pos))
           /\ FracLeq(p_final, _calc_p_mkt(io.side, book, pos))
           /\ FracLeq(p_final, _calc_cap_exec(io.side, book, pos))
           /\ io.p_final >= MIN_PRICE
           /\ io.p_final <= MAX_VALID_PRICE

C8_NoGhostOrders ==
    Len(tasks) = 0 => TrackerIds = VenueIds(market_state.market_id)

\* C9: the bodies of two on_fill calls never interleave: at most one
\* on_fill is between its tracker update and the end of its second
\* reconciliation, and it is the holder of the fill lock.
C9_FillBodiesNeverInterleave ==
    /\ Cardinality(OnFillInBody) <= 1
    /\ manager.fill_lock <=> OnFillInBody # {}

\* two fills delivered, one on_fill in its body and the other waiting
C9_Witness ==
    \E i, j \in 1..Len(tasks) :
        /\ i # j
        /\ tasks[i].kind = "on_fill" /\ tasks[i].pc = 2
        /\ tasks[j].kind = "on_fill" /\ tasks[j].pc = 1
        /\ manager.fill_lock

\* C10: every reconciliation run by on_fill reads a ledger to which that
\* fill has been applied.
C10_FillAppliedBeforeReconcile ==
    (io.op = "reconcile" /\ io.caller = "on_fill") => io.fill_applied

\* C11: a price-change or fill reconciliation task created before a window
\* roll never cancels or places orders after the roll: every cancel or place
\* request of on_price_change / on_fill is made for the supervisor's current
\* window (the ledger the task was created with is the current one).
C11_NoOldWindowReconcileAfterRoll ==
    (/\ io.op = "reconcile"
     /\ io.caller \in {"on_price_change", "on_fill"}
     /\ (io.cancel_req # {} \/ io.place_req # {}))
        => io.window = trader.position

\* C12: after a window roll, a book or price-change message for a token of
\* the old window (not in the subscription) triggers no state-update callback
\* and so no reconciliation task.  (The book is left as it was by
\* construction of both handlers.)
C12_StrayEventIsDropped ==
    io.event \in {"stray_book", "stray_price_change"}
        => ~io.callback /\ io.spawned = 0

\* C13: while the process runs, the supervisor and the executor reference
\* the ledger of the current window; right after a roll that ledger is the
\* fresh one (Qy = Qn = Cy = Cn = 0); and a fill whose asset id is not a token
\* of the executor's current window changes no ledger.
C13_FreshLedgerAfterRoll ==
    /\ [](Running => /\ trader.position = market_state.market_id
                     /\ executor.position = market_state.market_id)
    /\ [](io.op = "roll" => position_states[trader.position] = PositionState)
    /\ [][(io'.op = "fill" /\ ~io'.fill_applied)
             => position_states' = position_states]_vars

\* a fill for a token of an ended window arrives after the roll
C13_Witness ==
    /\ io.op = "fill" /\ ~io.fill_applied
    /\ trader.position > 1
    /\ position_states[trader.position] = PositionState

\* C14: the order manager makes no cancel or place call of a reconciliation
\* while the Market Book is not synced on both sides, whether the handler was
\* triggered by a market-data update or by a fill.
C14_NoReconcileWhileUnsynced ==
    (io.op = "reconcile" /\ (io.cancel_req # {} \/ io.place_req # {}))
        => market_state.sync.yes /\ market_state.sync.no

\* C15: from the moment the connection is lost and re-established, or the
\* subscription is switched at a roll, until the fresh snapshot of a side has
\* been applied, that side's synced flag is false.
C15_UnsyncedUntilFreshSnapshot ==
    \A side \in Sides :
        side \in venue.snapshots_due => ~market_state.sync[side]

\* C16: on every path that ends the process (signal, --seconds limit,
\* --markets limit, ingestion ending) a cancel-all for our orders has been
\* issued to the venue by the time the process exits.
C16_CancelAllBeforeExit ==
    io.op = "exit" => io.market_cancel # 0

C18_FirstWindowIsSkipped ==
    /\ []((Running /\ trader.markets_seen = 1)
            => /\ ~trader.trading_enabled
               /\ tasks = << >>
               /\ ~manager.initialized
               /\ tracker = {}
               /\ venue.next_id = 1)
    /\ [][(~trader.trading_enabled /\ trader'.trading_enabled)
             => io'.op = "roll"]_vars

\* the first window's book is synced on both sides and an update is delivered
C18_Witness ==
    /\ Running /\ trader.markets_seen = 1
    /\ market_state.sync.yes /\ market_state.sync.no
    /\ io.op = "update" /\ io.callback /\ io.event = "price_change"

\* C19: a position sync never lowers a ledger field: after _sync_position
\* each of Qy, Qn, Cy and Cn is at least what it was before.
C19_SyncNeverLowers ==
    [][io'.op = "sync"
         => \A w \in 1..MaxWindows :
              /\ position_states'[w].Qy >= position_states[w].Qy
              /\ position_states'[w].Qn >= position_states[w].Qn
              /\ position_states'[w].Cy >= position_states[w].Cy
              /\ position_states'[w].Cn >= position_states[w].Cn]_vars

\* C20: when a side is reconciled on a ledger with net(side) >= MAX_POSITION,
\* its target size is 0 and its ideal ladder is empty, and the run asks for
\* no placement and leaves no order of the side tracked (every tracked order
\* of the side is in the run's cancel request).
C20_HardStopAtMaxPosition ==
    LET side == io.side
        rec == last_rec[side]
    IN (/\ io.op = "reconcile"
        /\ _get_net_position(side, rec.pos) >= MAX_POSITION * SizeScale)
          => /\ _calc_target_size(side, rec.pos) = 0
             /\ DOMAIN ideal_ladder(side, rec.book, rec.pos) = {}
             /\ io.place_req = {}
             /\ get_prices(tracker, side) = {}

\* a side at its hard stop (after a position sync) is reconciled while it
\* has orders tracked
C20_Witness ==
    /\ io.op = "reconcile" /\ io.caller = "on_price_change"
    /\ _get_net_position(io.side, last_rec[io.side].pos) >= MAX_POSITION * SizeScale
    /\ Cardinality(io.cancel_req) >= 2
    \* the task of a later update than the one that initialised the ladder
    /\ counters.book = 2 /\ Len(tasks) = 1

\* C21: every rung of an ideal ladder built with target_size > 0 has a
\* price in [MIN_PRICE, 990] that is a multiple of TICK.
C21_RungPricesValidAndOnTick ==
    (io.op = "gate"
     /\ _calc_target_size(io.side, position_states[trader.position]) > 0) =>
        \A price \in DOMAIN io.ladder :
            /\ price >= MIN_PRICE
            /\ price <= MAX_VALID_PRICE
            /\ price % TICK_SIZE = 0

\* C22: an ideal ladder has at most LADDER_DEPTH rungs, its top rung is
\* p_final, every other rung is exactly TICK below another rung (the dict
\* keys are the prices, so no two rungs share one), and all rungs carry the
\* target size.
C22_LadderShape ==
    io.op = "gate" =>
        LET target == _calc_target_size(io.side, position_states[trader.position])
            prices == DOMAIN io.ladder
        IN /\ Cardinality(prices) <= LADDER_DEPTH
           /\ prices # {} => io.p_final \in prices
           /\ \A price \in prices :
                 /\ price <= io.p_final
                 /\ price = io.p_final \/ price + TICK_SIZE \in prices
                 /\ io.ladder[price] = target
           /\ target <= 0 => prices = {}

\* a ladder that MIN_PRICE cuts to two rungs
C22_Witness ==
    /\ io.op = "gate"
    /\ io.p_final = MIN_PRICE + TICK_SIZE
    /\ DOMAIN io.ladder = {MIN_PRICE, MIN_PRICE + TICK_SIZE}
    /\ io.ladder[MIN_PRICE] > 0

\* C23: whatever sequence of add, update_fill, remove_by_ids and clear_all
\* the tracker has seen, every order it holds has a remaining size above the
\* tolerance (so >= 0) and at most its original size, and after a fill that
\* takes a tracked order's remaining size to zero or below, the order is no
\* longer tracked.
C23_RemainingSizeWithinBounds ==
    /\ \A o \in AllOrders(tracker) :
          /\ o.remaining_size >= 0
          /\ o.remaining_size * 1000 > SizeScale
          /\ o.remaining_size <= o.original_size
    /\ (/\ io.op = "update_fill"
        /\ io.found
        /\ (io.remaining_before - io.size) * 1000 <= SizeScale) =>
          \A o \in AllOrders(tracker) : o.order_id # io.order_id

\* a fill larger than what the order had left, next to an order that stays
C23_Witness ==
    /\ io.op = "update_fill"
    /\ io.found
    /\ io.size > io.remaining_before
    /\ AllOrders(tracker) # {}
    /\ \A o \in AllOrders(tracker) : o.order_id # io.order_id

\* C25: update_fill changes only the order its order id names, whatever
\* price the fill reports: that order's remaining size drops by the fill
\* size (or the order leaves the tracker), every other order of either side
\* is as before, and a fill for an id the side does not track changes
\* nothing.
C25_FillDecrementsOrderById ==
    [][io'.op = "update_fill" =>
          LET named(o) == o.side = io'.side /\ o.order_id = io'.order_id
              before == AllOrders(tracker)
              after == AllOrders(tracker')
              left == io'.remaining_before - io'.size
          IN /\ {o \in after : ~named(o)} = {o \in before : ~named(o)}
             /\ ~io'.found => tracker' = tracker
             /\ io'.found =>
                   \A o \in before : named(o) =>
                       /\ o.remaining_size = io'.remaining_before
                       /\ {x \in after : named(x)} =
                             IF left * 1000 <= SizeScale THEN {}
                             ELSE {[o EXCEPT !.remaining_size = left]}
    ]_vars

\* a partial fill reported at 100 for an order resting at 110, while an
\* untouched order of the same side rests at 100
C25_Witness ==
    /\ io.op = "update_fill"
    /\ io.found
    /\ io.price = 100
    /\ \E o \in AllOrders(tracker) :
          /\ o.side = io.side /\ o.order_id = io.order_id
          /\ o.price = 110
          /\ o.remaining_size = io.remaining_before - io.size
    /\ \E o \in AllOrders(tracker) :
          /\ o.side = io.side /\ o.order_id # io.order_id
          /\ o.price = 100
          /\ o.remaining_size = o.original_size

\* C28: remove_by_ids drops exactly the named orders of the side and nothing
\* else, leaves no price level with an empty list, and applied again with
\* the same ids gives the same tracker; with ids the side does not track it
\* changes nothing.
C28_RemoveByIdsIdempotent ==
    /\ [](io.op = "remove_by_ids" =>
            /\ OrderTracker_remove_by_ids(tracker, io.side, io.cancel_req) = tracker
            /\ \A side \in Sides : \A price \in DOMAIN tracker[side] :
                  tracker[side][price] # << >>)
    /\ [][io'.op = "remove_by_ids" =>
            /\ AllOrders(tracker') =
                  remove_by_ids(AllOrders(tracker), io'.side, io'.cancel_req)
            /\ ~io'.found => tracker' = tracker
       ]_vars

\* two of three orders named, a third one left
C28_Witness ==
    /\ io.op = "remove_by_ids"
    /\ io.found
    /\ Cardinality(io.cancel_req) = 2
    /\ Cardinality(AllOrders(tracker)) = 1
    /\ \A o \in AllOrders(tracker) : o.order_id \notin io.cancel_req

\* C24: in every ledger Qy, Qn, Cy and Cn are >= 0 at all times, and a fill
\* of one of the market's two tokens adds the fill size to that side's Q and
\* price * size to that side's C, and leaves the other side's Q and C and
\* the ledgers of the other windows as they were.
C24_FillAddsToFilledSideOnly ==
    /\ [](\A w \in 1..MaxWindows :
            /\ position_states[w].Qy >= 0 /\ position_states[w].Qn >= 0
            /\ position_states[w].Cy >= 0 /\ position_states[w].Cn >= 0)
    /\ [][(io'.op = "fill" /\ io'.fill_applied) =>
            LET w == executor.position
                side == io'.side
                old == position_states[w]
                new == position_states'[w]
            IN /\ io'.size > 0
               /\ Qty(new, side) = Qty(old, side) + io'.size
               /\ Cost(new, side) = Cost(old, side) + io'.price * io'.size
               /\ Qty(new, Other(side)) = Qty(old, Other(side))
               /\ Cost(new, Other(side)) = Cost(old, Other(side))
               /\ \A v \in 1..MaxWindows : v # w => position_states'[v] = position_states[v]
       ]_vars

\* a NO fill after a roll, into a ledger that already holds YES shares
C24_Witness ==
    /\ io.op = "fill" /\ io.fill_applied /\ io.side = "no"
    /\ trader.position > 1
    /\ position_states[trader.position].Qy > 0
    /\ position_states[trader.position].Qn = io.size
    /\ position_states[trader.position].Cn = io.price * io.size

\* C26: a place flush adds to the tracker exactly the orders whose response
\* carries an orderID, each under that id; an order answered with an
\* errorMsg or with neither field, and a batch that ends in an exception or
\* an empty response, add nothing.  Every tracked order rests on the venue.
C26_TrackedOnlyWithOrderId ==
    /\ [](\A o \in tracker : \E v \in venue.orders :
             /\ v.order_id = o.order_id /\ v.side = o.side /\ v.price = o.price)
    /\ [][io'.op = "place" =>
            LET response == io'.response
                with_id == accepted_of(io'.place_req, response)
            IN /\ tracker \subseteq tracker'
               /\ {[price |-> o.price, size |-> o.original_size] : o \in tracker' \ tracker}
                     = with_id
               /\ \A o \in tracker' \ tracker :
                     /\ o.side = io'.side
                     /\ o.order_id \in io'.placed
                     /\ o.order_id \notin {x.order_id : x \in tracker}
               /\ Cardinality(tracker' \ tracker) = Cardinality(with_id)
       ]_vars

\* a batch of two: the order at 110 is rejected with an errorMsg, the one at
\* 100 gets an orderID and is the only one tracked
C26_Witness ==
    /\ io.op = "place"
    /\ Cardinality(io.place_req) = 2
    /\ io.response.kind = "list"
    /\ io.response.answers[110] = "errorMsg"
    /\ io.response.answers[100] = "orderID"
    /\ {o.price : o \in tracker} = {100}
    /\ Cardinality(tracker) = 1

\* C27: a price_change message that leaves the Market Book as it was (the
\* same best asks and sync flags as before the message) creates no order
\* manager task.
C27_UnchangedBookSpawnsNothing ==
    [][(/\ io'.op = "update"
        /\ io'.event = "price_change"
        /\ market_state' = market_state) => io'.spawned = 0]_vars

\* our part in a trade event makes it a fill: we are the taker, or a maker
\* order of the trade is our wallet's
IsOurs(e) == e.kind \in {"taker", "maker", "maker_two"}

IsMatchedOurs(e) == e.status = "MATCHED" /\ IsOurs(e)

\* C29: the FillEvents handed to the supervisor are, in the same order, the
\* trade events that arrived with status MATCHED and in which we are taker
\* or have a maker order: one fill for each of them, none for any other
\* status (MINED, CONFIRMED, RETRYING, FAILED) or for a trade that is not
\* ours, and no trade is delivered twice.
C29_OneFillPerMatchedTradeInOrder ==
    LET expected == SelectSeq(hist.trade_events, IsMatchedOurs)
    IN /\ Len(hist.fills) = Len(expected)
       /\ \A i \in 1..Len(hist.fills) :
             /\ hist.fills[i].trade = expected[i].trade
             /\ hist.fills[i].fill.is_maker = (expected[i].kind # "taker")
             /\ hist.fills[i].fill.order_id = hist.fills[i].trade
       /\ \A i, j \in 1..Len(hist.fills) :
             hist.fills[i].trade = hist.fills[j].trade => i = j
       /\ (io.op = "trade" /\ io.event # "MATCHED") => ~io.callback

\* a maker trade and then a taker trade, the first one reported up to
\* CONFIRMED after the second was matched: two fills, in arrival order
C29_Witness ==
    /\ Len(hist.fills) = 2
    /\ hist.fills[1].trade = 1 /\ hist.fills[1].fill.is_maker
    /\ hist.fills[2].trade = 2 /\ ~hist.fills[2].fill.is_maker
    /\ Len(hist.trade_events) = 4
    /\ hist.trade_events[2].trade = 2
    /\ venue.trades[1].status = "CONFIRMED"
    /\ io.op = "trade" /\ io.event = "CONFIRMED"

\* C30: a pass of the scheduler that reads the clock at or after next_start
\* (current_slug + 900) goes on to the switch without a sleep, for the window
\* the clock is in; a sleep until the switch ends at current_slug + 900; and
\* a switch leaves current_slug at the start of the window switched to, so
\* that the following switch is due 900 s after that start.
C30_SwitchAtOnceThenRealign ==
    /\ (io.op = "evaluate"
        /\ scheduler.now >= scheduler.current_slug + WINDOW_SECONDS) =>
          /\ scheduler.pc = "fetching"
          /\ ~scheduler.slept
          /\ scheduler.target = floor_to_15min_epoch(scheduler.now)
    /\ (scheduler.pc = "sleeping" /\ scheduler.sleep = "until_next_start") =>
          /\ scheduler.wake = scheduler.current_slug + WINDOW_SECONDS
          /\ io.op = "evaluate" => scheduler.wake > scheduler.now
    /\ io.op = "roll" =>
          /\ scheduler.pc = "evaluate"
          /\ scheduler.current_slug = window_start(market_state.market_id)
          /\ scheduler.current_slug = scheduler.target
          /\ scheduler.current_slug <= scheduler.now
    /\ Running => scheduler.current_slug = window_start(market_state.market_id)

\* the last switch was made without a sleep, some way into the new window,
\* and the loop now sleeps until that window's start + 900
C30_Witness ==
    /\ io.op = "evaluate"
    /\ market_state.market_id > 1
    /\ ~scheduler.slept
    /\ scheduler.pc = "sleeping" /\ scheduler.sleep = "until_next_start"
    /\ scheduler.now > scheduler.current_slug
    /\ scheduler.wake = window_start(market_state.market_id) + WINDOW_SECONDS

\* C31: whenever the market-data connection is lost (closed normally or with
\* an error) and the ingestor has not been stopped, a new connection is
\* opened and the subscribe frame for the market's tokens is sent again.
C31_ReconnectsAfterEveryLoss ==
    (io.op = "close" /\ ~socket.stopped)
        ~> ((io.op = "subscribe" /\ io.window = market_state.market_id)
               \/ socket.stopped)

\* C39: once disconnect() has been called, connect() starts no new connection
\* attempt (it is not found awaiting websockets.connect unless it already was
\* when disconnect() was called) and sends no subscribe frame.
C39_NoConnectionAfterDisconnect ==
    /\ [][(socket'.stopped /\ socket'.pc = "connecting")
             => socket.pc = "connecting"]_vars
    /\ [](socket.stopped => io.op # "subscribe")

\* C32: in a window entered by a roll, with trading enabled and neither the
\* circuit breaker nor the profit lock engaged in that window, a market
\* update that finds both sides synced starts the window's initialisation
\* (the initialize task is created at the first such update, once) and
\* creates a price-change reconciliation task.
C32_ReconcileResumesAfterRoll ==
    (/\ Running
     /\ trader.markets_seen >= 2
     /\ io.op = "update" /\ io.callback
     /\ market_state.sync.yes /\ market_state.sync.no
     /\ trader.trading_enabled
     /\ ~hist.breaker /\ ~hist.profit_lock)
        => /\ trader.trading_started
           /\ io.spawned >= 1

\* the ids of the orders of a side tracked at a price
IdsAt(trk, side, price) == {o.order_id : o \in get_orders_at_price(trk, side, price)}

\* the decision table of a reconciliation of `side` on the tracker trk with
\* the ideal ladder `ladder`: what is queued for cancel and for placement.
\* shrink_needs_min: the replacement of a SHRINK is queued only when the
\* target is at least MIN_ORDER_SIZE
TableCancels(trk, side, ladder) ==
    UNION {IdsAt(trk, side, price) :
             price \in {p \in get_prices(trk, side) :
                          \/ p \notin DOMAIN ladder
                          \/ 2 * get_total_size_at_price(trk, side, p)
                                > ladder[p] * 3}}

TablePlaces(trk, side, ladder, shrink_needs_min) ==
    LET min_size == MIN_ORDER_SIZE * SizeScale
        current(p) == get_total_size_at_price(trk, side, p)
    IN  {[price |-> p, size |-> ladder[p]] :
            p \in {q \in DOMAIN ladder : current(q) = 0 /\ ladder[q] >= min_size}}
        \cup
        {[price |-> p, size |-> ladder[p] - current(p)] :
            p \in {q \in DOMAIN ladder : /\ 0 < current(q) /\ current(q) < ladder[q]
                                         /\ ladder[q] - current(q) >= min_size}}
        \cup
        {[price |-> p, size |-> ladder[p]] :
            p \in {q \in DOMAIN ladder : /\ 2 * current(q) > ladder[q] * 3
                                         /\ shrink_needs_min => ladder[q] >= min_size}}

\* C33 as stated: one reconciliation of a side queues for cancel exactly the
\* orders at prices outside the ideal ladder and the orders at prices whose
\* total exceeds target * (1 + HYSTERESIS), and queues for placement exactly:
\* target where nothing rests (if target >= MIN_ORDER_SIZE), target - current
\* where 0 < current < target (if that is >= MIN_ORDER_SIZE), and target
\* where the total exceeds target * (1 + HYSTERESIS).
C33_DecisionTableAsStated ==
    [][io'.op = "reconcile" =>
          LET ladder == ideal_ladder(io'.side, market_state.best_ask,
                                     position_states[trader.position])
          IN /\ io'.cancel_req = TableCancels(tracker, io'.side, ladder)
             /\ io'.place_req = TablePlaces(tracker, io'.side, ladder, FALSE)]_vars

\* C33 amended: the same, with the replacement order of a SHRINK queued only
\* if target >= MIN_ORDER_SIZE.
C33_DecisionTable ==
    [][io'.op = "reconcile" =>
          LET ladder == ideal_ladder(io'.side, market_state.best_ask,
                                     position_states[trader.position])
          IN /\ io'.cancel_req = TableCancels(tracker, io'.side, ladder)
             /\ io'.place_req = TablePlaces(tracker, io'.side, ladder, TRUE)]_vars

\* one run that cancels an order above the ladder and the two orders of an
\* oversized rung, replaces that rung, stacks on a rung and places on an
\* empty rung
C33_Witness ==
    /\ io.op = "reconcile" /\ io.side = "yes"
    /\ DiffOrderId(130, 1) \in io.cancel_req
    /\ {DiffOrderId(120, 1), DiffOrderId(120, 2)} \subseteq io.cancel_req
    /\ io.place_req = {[price |-> 120, size |-> 1000], [price |-> 110, size |-> 700],
                       [price |-> 100, size |-> 1000]}

\* C34: for a light side (net < 0) whose opposite side is held, buying
\* exactly |net| more shares of the side at P_acct leaves min_pnl at 0, and
\* buying them at any whole-tick price up to P_acct leaves min_pnl >= 0.
\* A purchase of size shares at price x lowers min_pnl by size * x from what
\* it is when the shares cost nothing, so min_pnl is 0 at x = P_acct exactly
\* when P_acct = (min_pnl with the shares at price 0) / size.
C34_PAcctIsBreakEven ==
    io.op = "gate" =>
        LET pos == position_states[trader.position]
            net == _get_net_position(io.side, pos)
            p_acct == _calc_p_acct(io.side, pos)
            zero_at == Frac(min_pnl(handle_ws_fill(pos, TRUE, io.side, 0, -net)), -net)
        IN (net < 0 /\ Qty(pos, Other(io.side)) > 0) =>
              /\ FracLeq(p_acct, zero_at) /\ FracLeq(zero_at, p_acct)
              /\ \A p \in 0..ONE_DOLLAR_TICKS :
                    FracLeq(Frac(p, 1), p_acct) =>
                        min_pnl(handle_ws_fill(pos, TRUE, io.side, p, -net)) >= 0

\* the YES price of a ledger holding 10 YES bought at 0.40 and 200 NO bought
\* at 0.40: P_acct is 11600000 / 19000, about 0.61
C34_Witness ==
    /\ io.op = "gate" /\ io.side = "yes"
    /\ position_states[trader.position] =
           [Qy |-> 1000, Qn |-> 20000, Cy |-> 400000, Cn |-> 8000000]
    /\ _calc_p_acct("yes", position_states[trader.position]) = Frac(11600000, 19000)

\* clamp(1 - net / MAX_POSITION, 0, 2) as an exact fraction
size_scalar(net) ==
    FracMax(Frac(0, 1),
            FracMin(Frac(2, 1),
                    Frac(MAX_POSITION * SizeScale - net, MAX_POSITION * SizeScale)))

\* C35: target_size is BASE_SIZE * clamp(1 - net / MAX_POSITION, 0, 2) cut to
\* hundredths: 2 * BASE_SIZE for net <= -MAX_POSITION, BASE_SIZE for net = 0,
\* 0 and an empty ladder for net = +MAX_POSITION, and never larger for a
\* ledger with a larger net position.
C35_SizeScalar ==
    io.op = "gate" =>
        LET pos == position_states[trader.position]
            net == _get_net_position(io.side, pos)
            target == _calc_target_size(io.side, pos)
            full == MAX_POSITION * SizeScale
            scalar == size_scalar(net)
        IN /\ target * scalar[2] <= BASE_SIZE * SizeScale * scalar[1]
           /\ BASE_SIZE * SizeScale * scalar[1] < (target + 1) * scalar[2]
           /\ net <= -full => target = 2 * BASE_SIZE * SizeScale
           /\ net = 0 => target = BASE_SIZE * SizeScale
           /\ net = full => target = 0 /\ io.ladder = << >>
           /\ \A other \in GateLedgers :
                 _get_net_position(io.side, other) >= net
                     => _calc_target_size(io.side, other) <= target

\* the YES side priced with 75 YES and no NO held
C35_Witness ==
    /\ io.op = "gate" /\ io.side = "yes"
    /\ position_states[trader.position].Qy = MAX_POSITION * SizeScale
    /\ position_states[trader.position].Qn = 0
    /\ io.ladder = << >>

\* C36: a run of _reconcile_orders for a side leaves the orders tracked for
\* the other side as they were (none added, removed or resized), and leaves
\* every position ledger and the market book as they were.
C36_ReconcileTouchesOneSide ==
    [][io'.op = "reconcile" =>
          /\ {o \in tracker' : o.side # io'.side} = {o \in tracker : o.side # io'.side}
          /\ position_states' = position_states
          /\ market_state' = market_state]_vars

\* a YES reconciliation that cancelled and placed YES orders while a NO
\* order stayed tracked
C36_Witness ==
    /\ io.op = "reconcile" /\ io.side = "yes"
    /\ io.cancel_req # {} /\ io.placed # {}
    /\ \E o \in tracker : o.side = "no"

\* C38: after a reconciliation of a side whose cancels and places the venue
\* all accepted, every price tracked for the side is a rung of the ideal
\* ladder, and at every rung the tracked total is at most
\* target * (1 + HYSTERESIS) and, when target >= MIN_ORDER_SIZE, more than
\* target - MIN_ORDER_SIZE.
C38_TrackerWithinLadderAfterReconcile ==
    (/\ io.op = "reconcile"
     /\ io.canceled = io.cancel_req
     /\ Cardinality(io.placed) = Cardinality(io.place_req)) =>
        LET ladder == ideal_ladder(io.side, market_state.best_ask,
                                   position_states[trader.position])
            min_size == MIN_ORDER_SIZE * SizeScale
        IN /\ get_prices(tracker, io.side) \subseteq DOMAIN ladder
           /\ \A price \in DOMAIN ladder :
                 LET total == get_total_size_at_price(tracker, io.side, price)
                 IN /\ total * 100 <= ladder[price] * (100 + HYSTERESIS_PCT)
                    /\ ladder[price] >= min_size => total > ladder[price] - min_size

\* a YES reconciliation, all of it accepted, that cancelled, placed, and left
\* an order it found where it was
C38_Witness ==
    /\ io.op = "reconcile" /\ io.side = "yes"
    /\ io.cancel_req # {} /\ io.canceled = io.cancel_req
    /\ io.place_req # {} /\ Cardinality(io.placed) = Cardinality(io.place_req)
    /\ \E o \in tracker : o.side = "yes" /\ o.order_id \notin io.placed

\* C40: for every MATCHED trade message in which we are the maker, each
\* maker order of the message that belongs to our wallet has been handed to
\* on_fill as a fill of that order, with its matched amount and its price.
C40_EveryOwnMakerOrderReported ==
    \A i \in 1..Len(hist.trade_events) :
        LET e == hist.trade_events[i]
            data == TradeMessage(e.trade, e.kind, e.status)
        IN (data.status = "MATCHED" /\ data.trader_side = "MAKER") =>
              \A j \in 1..Len(data.maker_orders) :
                  data.maker_orders[j].ours =>
                      \E k \in 1..Len(hist.fills) :
                          /\ hist.fills[k].trade = e.trade
                          /\ hist.fills[k].fill.order_id = data.maker_orders[j].order_id
                          /\ hist.fills[k].fill.size = data.maker_orders[j].matched_amount
                          /\ hist.fills[k].fill.price = data.maker_orders[j].price

\* C37: within a window, after any run of placements, fills and
\* reconciliations (no position sync), the net position of either side,
\* Q_side - Q_other, is at most MAX_POSITION.
C37_NetWithinMaxPosition ==
    \A side \in Sides :
        _get_net_position(side, position_states[trader.position])
            <= MAX_POSITION * SizeScale

====
